---- MODULE Spec2Model ----
(***************************************************************************)
(* Model of the ContentRecords plugin (src/unnamed/part_000): the SQLite   *)
(* record store (records / record_fields), its CRUD operations, the seed   *)
(* step, the inline-edit handler, the DB handle registry (getDB) and the   *)
(* two-query reader.                                                       *)
(*                                                                         *)
(* The committed contents of the two tables are the variables records and  *)
(* fields (sets of rows).  A Go function that runs one transaction is one  *)
(* operator that returns its result and the committed tables after it; a   *)
(* transaction that is neither committed nor rolled back when the function *)
(* returns is counted in openTx.  The created_at/updated_at columns are   *)
(* not part of the model: the UPDATE that touches updated_at is modelled   *)
(* by its rows-affected count only.                                        *)
(***************************************************************************)
EXTENDS Integers, FiniteSets, Sequences, TLC

\* ------------------------------------------------------------------ bounds
\* Largest record id the store hands out (AUTOINCREMENT stops the model there).
MaxId == 2
\* Largest number of store calls in one behaviour of Spec.
MaxOps == 3
\* Largest number of changes made to a copied tree.
MaxEdits == 2
\* Largest number of tokens in a request body.
MaxBody == 3
\* Largest number of instances that decode one request.
MaxDecodes == 3
\* Largest depth of a tree handed to normalizeToStringMap.
MaxDepth == 3
\* Number of workers that call getDB concurrently.
NumProcs == 2

\* ------------------------------------------------------------- input sets
Ids == 1..MaxId
\* Record ids a caller may pass: 0 (no id) and every id the store may hold.
IdArgs == 0..MaxId
\* Content types: the template's @name, "" when the template has none.
Types == {"", "a"}
Keys == {"title", "body"}
Vals == {"A", "B"}
\* Bind keys a caller may pass to updateRecordField: a key, or a blank one.
KeyArgs == Keys \cup {" "}
\* map[string]string over the bind keys: every function from a subset of Keys.
ValueMaps == UNION {[S -> Vals] : S \in SUBSET Keys}
Procs == 1..NumProcs
\* Store paths a configuration may name: two files and a blank path.
Stores == {"a.db", "b.db", " "}
\* Number of statements initSchema executes.
NumStmts == 4

VARIABLES
  records,   \* committed rows of table records: [id, type]
  fields,    \* committed rows of table record_fields: [record_id, bind_key, value]
  seq,       \* sqlite_sequence of records (AUTOINCREMENT): largest id ever handed out
  openTx,    \* number of transactions begun and neither committed nor rolled back
  nops,      \* number of calls made so far
  last,      \* the last call and what it returned: [op, id, err]
  dbMu,      \* holder of the registry mutex dbMu, 0 when free
  dbByPath,  \* the registry: store path -> dbEntry [once, stmts, initErr, runs]
  proc,      \* per worker, its getDB call: [pc, store, db, err]
  rd,        \* the reader's fetch in progress: [pc, id, ids, err, out]
  hist,      \* every (record id, field map) a committed state of the store has held
  call,      \* the Render call being answered: [req, cfg], NoCall between calls
  resp,      \* what that call answered: [handled, status, body]
  rv,        \* Render's dispatch: [pc, fields, view, action, routine]
  se,        \* a Render call in single+edit mode: [pc, req, cfg, target, out]
  rn,        \* a Render call's materialization: [pc, template, cfg, records, heap, ...]
  sw,        \* the Render calls that seed: per worker [pc, type, default, count]
  cb,        \* a walk of collectBinds: [pc, template, stack, binds, visited]
  nz,        \* a call of normalizeToStringMap: [pc, input, ok, out, again]
  bd,        \* a request body and its decodes: [pc, sent, body, results]
  tp,        \* a call of a template function: [pc, template, teaser, binds, filtered, out]
  tr         \* a call of a tree function: its arguments, the heap and its result

storeVars == <<records, fields, seq, openTx, nops, last>>
openVars == <<dbMu, dbByPath, proc>>
readVars == <<rd, hist>>
inlineVars == <<call, resp>>
moreVars == <<bd, nz, cb, sw, se, rn>>
pureVars == <<rv, tr, tp, moreVars>>
vars == <<records, fields, seq, openTx, nops, last, dbMu, dbByPath, proc, rd, hist,
          call, resp, rv, tr, tp, bd, nz, cb, sw, se, rn>>

\* strings.TrimSpace on the strings of the model
Padded ==
  (" " :> "") @@ (" title" :> "title") @@ (" List" :> "List") @@ (" edit" :> "edit")
  @@ (" CMS " :> "CMS") @@ (" a " :> "a") @@ (" Delete" :> "Delete") @@ (" Image" :> "Image")
  @@ (" body" :> "body")
TrimSpace(s) == IF s \in DOMAIN Padded THEN Padded[s] ELSE s

\* strings.ToLower, on the strings the model uses
Upper ==
  ("ON" :> "on") @@ ("List" :> "list") @@ ("Render" :> "render") @@ ("CMS" :> "cms")
  @@ ("<PLUGIN>" :> "<plugin>") @@ ("ContentRecords" :> "contentrecords")
  @@ ("False" :> "false") @@ ("Delete" :> "delete") @@ ("Image" :> "image")
ToLower(s) == IF s \in DOMAIN Upper THEN Upper[s] ELSE s

\* The decimal numerals: strconv.FormatInt(i, 10) is DecStr[i]
DecStr == <<"1", "2", "3", "4", "5", "6", "7", "8", "9">>
FormatInt(i) == DecStr[i]

\* strconv.ParseInt(s, 10, 64) with its error mapped to 0: a numeral, or a
\* numeral with a sign, is its number; any other string is an error.
ParseInt(s) ==
  IF s = "+1" THEN 1
  ELSE IF \E i \in DOMAIN DecStr : DecStr[i] = s
    THEN CHOOSE i \in DOMAIN DecStr : DecStr[i] = s
    ELSE 0

\* ------------------------------------------------------- SQL statements
\* UPDATE records SET updated_at = CURRENT_TIMESTAMP WHERE id = ? [AND type = ?]:
\* the rows it affects
touchedRows(recs, recordID, contentType) ==
  {r \in recs : r.id = recordID /\ (contentType = "" \/ r.type = contentType)}

\* DELETE FROM record_fields WHERE record_id = ?
deleteFieldRows(flds, recordID) == {f \in flds : f.record_id # recordID}

\* DELETE FROM records WHERE id = ? [AND type = ?]
deleteRecordRows(recs, recordID, contentType) ==
  recs \ touchedRows(recs, recordID, contentType)

\* SELECT bind_key, value FROM record_fields WHERE record_id = ?, as a map
fetchRecordFields(flds, recordID) ==
  LET rows == {f \in flds : f.record_id = recordID}
  IN [k \in {f.bind_key : f \in rows} |->
        (CHOOSE f \in rows : f.bind_key = k).value]

\* One INSERT INTO record_fields per entry of values; PRIMARY KEY(record_id,
\* bind_key) rejects an entry whose row exists.
upsertFields(flds, recordID, values) ==
  IF \E f \in flds : f.record_id = recordID /\ f.bind_key \in DOMAIN values
    THEN [err |-> "constraint", fields |-> flds]
    ELSE [err |-> "nil",
          fields |-> flds \cup {[record_id |-> recordID, bind_key |-> k,
                                 value |-> values[k]] : k \in DOMAIN values}]

\* ------------------------------------------------------ store operations
\* The result of a store function: what it returns (err, id), the committed
\* tables afterwards, and whether its transaction is still open on return.
Result(e, i, recs, flds, sq, open) ==
  [err |-> e, id |-> i, records |-> recs, fields |-> flds, seq |-> sq, open |-> open]

createRecord(recs, flds, sq, contentType, values) ==
  LET recordID == sq + 1
      ins == upsertFields(flds, recordID, values)
  IN IF ins.err # "nil"
       \* `if err := upsertFields(...)` shadows err: the deferred Rollback is skipped
       THEN Result(ins.err, 0, recs, flds, sq, TRUE)
       ELSE Result("nil", recordID,
                   recs \cup {[id |-> recordID, type |-> contentType]},
                   ins.fields, recordID, FALSE)

\* updateRecord without the DELETE of the record's rows, writing values over them
updateRecordMerge(recs, flds, sq, recordID, contentType, values) ==
  LET kept == {f \in flds : ~(f.record_id = recordID /\ f.bind_key \in DOMAIN values)}
      ins == upsertFields(kept, recordID, values)
  IN Result("nil", recordID, recs, ins.fields, sq, FALSE)

updateRecord(recs, flds, sq, recordID, contentType, values) ==
  LET ins == upsertFields(deleteFieldRows(flds, recordID), recordID, values)
  IN IF ins.err # "nil"
       THEN Result(ins.err, recordID, recs, flds, sq, TRUE)
       ELSE Result("nil", recordID, recs, ins.fields, sq, FALSE)

\* updateRecordField whose UPDATE record_fields has no `AND bind_key = ?`
updateRecordFieldAllKeys(recs, flds, sq, recordID, contentType, bindKey, value) ==
  IF recordID = 0
    THEN Result("record id is required", recordID, recs, flds, sq, FALSE)
  ELSE IF TrimSpace(bindKey) = ""
    THEN Result("bind key is required", recordID, recs, flds, sq, FALSE)
  ELSE IF touchedRows(recs, recordID, contentType) = {}
    THEN Result("record not found", recordID, recs, flds, sq, TRUE)
  ELSE
    LET hit == {f \in flds : f.record_id = recordID}
        row == [record_id |-> recordID, bind_key |-> bindKey, value |-> value]
    IN Result("nil", recordID, recs,
              (flds \ hit) \cup {[f EXCEPT !.value = value] : f \in hit} \cup {row},
              sq, FALSE)

\* updateRecordField without the rows-affected check on the records UPDATE
updateRecordFieldNoCheck(recs, flds, sq, recordID, contentType, bindKey, value) ==
  IF recordID = 0
    THEN Result("record id is required", recordID, recs, flds, sq, FALSE)
  ELSE IF TrimSpace(bindKey) = ""
    THEN Result("bind key is required", recordID, recs, flds, sq, FALSE)
  ELSE
    LET hit == {f \in flds : f.record_id = recordID /\ f.bind_key = bindKey}
        row == [record_id |-> recordID, bind_key |-> bindKey, value |-> value]
    IN Result("nil", recordID, recs, (flds \ hit) \cup {row}, sq, FALSE)

\* a field update that writes the field row before it looks for the record
updateRecordFieldWritesFirst(recs, flds, sq, recordID, contentType, bindKey, value) ==
  LET hit == {f \in flds : f.record_id = recordID /\ f.bind_key = bindKey}
      row == [record_id |-> recordID, bind_key |-> bindKey, value |-> value]
  IN IF recordID = 0 THEN Result("record id is required", recordID, recs, flds, sq, FALSE)
     ELSE IF TrimSpace(bindKey) = ""
       THEN Result("bind key is required", recordID, recs, flds, sq, FALSE)
     ELSE IF touchedRows(recs, recordID, contentType) = {}
       THEN Result("record not found", recordID, recs, (flds \ hit) \cup {row}, sq, TRUE)
     ELSE Result("nil", recordID, recs, (flds \ hit) \cup {row}, sq, FALSE)

updateRecordField(recs, flds, sq, recordID, contentType, bindKey, value) ==
  IF recordID = 0
    THEN Result("record id is required", recordID, recs, flds, sq, FALSE)
  ELSE IF TrimSpace(bindKey) = ""
    THEN Result("bind key is required", recordID, recs, flds, sq, FALSE)
  ELSE IF touchedRows(recs, recordID, contentType) = {}
    \* `return fmt.Errorf(...)` leaves err nil: the deferred Rollback is skipped
    THEN Result("record not found", recordID, recs, flds, sq, TRUE)
  ELSE
    LET hit == {f \in flds : f.record_id = recordID /\ f.bind_key = bindKey}
        row == [record_id |-> recordID, bind_key |-> bindKey, value |-> value]
    IN Result("nil", recordID, recs, (flds \ hit) \cup {row}, sq, FALSE)

\* a delete that removes the record row and leaves its field rows
deleteRecordKeepsFields(recs, flds, sq, recordID, contentType) ==
  Result("nil", recordID, deleteRecordRows(recs, recordID, contentType), flds, sq, FALSE)

deleteRecord(recs, flds, sq, recordID, contentType) ==
  Result("nil", recordID, deleteRecordRows(recs, recordID, contentType),
         deleteFieldRows(flds, recordID), sq, FALSE)

\* SELECT COUNT(*) FROM records [WHERE type = ?]
countRecords(recs, contentType) ==
  IF TrimSpace(contentType) = ""
    THEN Cardinality(recs)
    ELSE Cardinality({r \in recs : r.type = contentType})

\* defaults holds defaultValuesFromTemplate(template, binds): the template's value
\* at the path of every bind of the Bind Index.
ensureSeed(recs, flds, sq, defaults, contentType) ==
  IF countRecords(recs, contentType) > 0
    THEN Result("nil", 0, recs, flds, sq, FALSE)
    ELSE createRecord(recs, flds, sq, contentType, defaults)

\* SELECT id FROM records WHERE id = ? [AND type = ?], then the field rows
fetchRecordByID(recs, flds, recordID, contentType) ==
  IF recordID = 0
    THEN [err |-> "record id is required", id |-> 0, fields |-> <<>>]
  ELSE IF touchedRows(recs, recordID, contentType) = {}
    THEN [err |-> "no rows", id |-> 0, fields |-> <<>>]
  ELSE [err |-> "nil", id |-> recordID, fields |-> fetchRecordFields(flds, recordID)]

\* ------------------------------------------------------- request strings
\* The path saveUploadFile returns for a stored upload
SavedPath == "up/f.png"

\* a flag parser that takes every non-blank string for true
parseBoolFlagNonBlank(value) == TrimSpace(value) # ""

parseBoolFlag(value) == ToLower(TrimSpace(value)) \in {"1", "true", "yes", "on", "y"}

parseRecordID(value) == IF TrimSpace(value) = "" THEN 0 ELSE ParseInt(TrimSpace(value))

\* ------------------------------------------------------------ template trees
\* A node of a tree is a string, a map from keys to nodes or a list of nodes.
Str(s) == [s |-> s]
Map(f) == [m |-> f]
List(q) == [l |-> q]
IsStr(n) == DOMAIN n = {"s"}
IsMap(n) == DOMAIN n = {"m"}
IsList(n) == DOMAIN n = {"l"}

\* strings.HasPrefix(key, "@"), on the keys the model uses
AtKeys == {"@type", "@bind", "@teaser", "@meta", "@name"}
HasAtPrefix(key) == key \in AtKeys

\* strings.Split(path, "."), on the paths the model uses
Dotted ==
  ("" :> <<"">>) @@ ("value" :> <<"value">>) @@ ("h.value" :> <<"h", "value">>)
  @@ ("a" :> <<"a">>) @@ ("z" :> <<"z">>) @@ ("a.b" :> <<"a", "b">>)
  @@ (" a .b" :> <<" a ", "b">>) @@ ("a..b" :> <<"a", "", "b">>)
  @@ ("a." :> <<"a", "">>) @@ ("a.z" :> <<"a", "z">>) @@ ("z.b" :> <<"z", "b">>)
  @@ ("c.b" :> <<"c", "b">>) @@ ("a.0" :> <<"a", "0">>) @@ ("a.+1" :> <<"a", "+1">>)
  @@ ("a.1.b" :> <<"a", "1", "b">>) @@ ("a.2" :> <<"a", "2">>)
  @@ ("a.-1" :> <<"a", "-1">>) @@ ("a.x.b" :> <<"a", "x", "b">>)
  @@ ("p.value" :> <<"p", "value">>)
Split(path) == Dotted[path]

\* strings.Contains(name, "contentrecords"), on the names the model uses
ContainsContentRecords(name) == name \in {"contentrecords"}

\* strings.EqualFold
EqualFold(a, b) == ToLower(a) = ToLower(b)

\* v, _ := node[key].(string)
stringAt(f, key) == IF key \in DOMAIN f /\ IsStr(f[key]) THEN f[key].s ELSE ""

\* parseBoolish(node[key]) for the string values of the model
parseBoolish(f, key) == key \in DOMAIN f /\ IsStr(f[key]) /\ parseBoolFlag(f[key].s)

isBoundaryPlugin(f) ==
  IF ~EqualFold(TrimSpace(stringAt(f, "@type")), "<PLUGIN>") THEN FALSE
  ELSE IF ContainsContentRecords(ToLower(stringAt(f, "plugin"))) THEN TRUE
  ELSE IF "data" \notin DOMAIN f THEN FALSE
  ELSE IF IsMap(f["data"])
    THEN \/ parseBoolish(f["data"].m, "content_record_boundary")
         \/ parseBoolish(f["data"].m, "boundary")
  ELSE FALSE

\* a search for boundaries that looks at the root and at maps below it only
RECURSIVE hasBoundaryPluginMapsOnly(_)
hasBoundaryPluginMapsOnly(node) ==
  IF IsMap(node)
    THEN \/ isBoundaryPlugin(node.m)
         \/ \E key \in DOMAIN node.m :
              ~HasAtPrefix(key) /\ hasBoundaryPluginMapsOnly(node.m[key])
    ELSE FALSE

RECURSIVE hasBoundaryPlugin(_)
hasBoundaryPlugin(node) ==
  IF IsMap(node)
    THEN \/ isBoundaryPlugin(node.m)
         \/ \E key \in DOMAIN node.m :
              ~HasAtPrefix(key) /\ hasBoundaryPlugin(node.m[key])
  ELSE IF IsList(node)
    THEN \E i \in DOMAIN node.l : hasBoundaryPlugin(node.l[i])
  ELSE FALSE

\* The bind a map node declares itself: its @bind with a field and a path
ownBind(f, path) ==
  IF "@bind" \in DOMAIN f /\ IsMap(f["@bind"])
    THEN LET field == TrimSpace(stringAt(f["@bind"].m, "field"))
             bindPath == TrimSpace(stringAt(f["@bind"].m, "path"))
         IN IF field # "" /\ bindPath # ""
              THEN {[field |-> field, path |-> path \o Split(bindPath)]}
              ELSE {}
    ELSE {}

\* a collector that goes on below a boundary
RECURSIVE collectBindsThroughBoundary(_, _)
collectBindsThroughBoundary(f, path) ==
  ownBind(f, path) \cup
    UNION {collectBindsThroughBoundary(f[key].m, Append(path, key)) :
             key \in {k \in DOMAIN f : ~HasAtPrefix(k) /\ IsMap(f[k])}}

\* collectBinds: every bind the walk comes to, as [field, path]; the walk takes
\* a node's own @bind, stops at a boundary, and goes down map children only
RECURSIVE collectBinds(_, _)
collectBinds(f, path) ==
  ownBind(f, path) \cup
    IF isBoundaryPlugin(f) THEN {}
    ELSE UNION {collectBinds(f[key].m, Append(path, key)) :
                  key \in {k \in DOMAIN f : ~HasAtPrefix(k) /\ IsMap(f[k])}}

\* The keys of the Bind Index of a template
bindKeys(template) == {b.field : b \in collectBinds(template.m, <<>>)}

\* a flag test that takes the flag's presence for its truth
hasFlagPresent(f, flagKey) == flagKey \in DOMAIN f

\* hasFlag, for the string values of the model
hasFlag(f, flagKey) ==
  /\ flagKey \in DOMAIN f
  /\ IsStr(f[flagKey])
  /\ ToLower(TrimSpace(f[flagKey].s)) \notin {"", "false", "0"}

NoMatch == [ok |-> FALSE, node |-> Str("")]

\* filterNodeByFlag, and filterItems for the loop over the items of a list
RECURSIVE filterNodeByFlag(_, _), filterItems(_, _)
filterNodeByFlag(node, flagKey) ==
  IF IsMap(node)
    THEN IF hasFlag(node.m, flagKey) THEN [ok |-> TRUE, node |-> node]
         ELSE IF isBoundaryPlugin(node.m) THEN NoMatch
         ELSE LET f == node.m
                  matched == {key \in DOMAIN f :
                                ~HasAtPrefix(key) /\ filterNodeByFlag(f[key], flagKey).ok}
                  copied == {key \in DOMAIN f : HasAtPrefix(key) \/ IsStr(f[key])}
              IN IF matched = {} THEN NoMatch
                 ELSE [ok |-> TRUE,
                       node |-> Map([key \in matched \cup copied |->
                                       IF key \in matched
                                         THEN filterNodeByFlag(f[key], flagKey).node
                                         ELSE f[key]])]
  ELSE IF IsList(node)
    THEN LET out == filterItems(node.l, flagKey)
         IN IF Len(out) = 0 THEN NoMatch ELSE [ok |-> TRUE, node |-> List(out)]
  ELSE NoMatch

filterItems(items, flagKey) ==
  IF items = <<>> THEN <<>>
  ELSE LET filtered == filterNodeByFlag(Head(items), flagKey)
       IN (IF filtered.ok THEN <<filtered.node>> ELSE <<>>) \o filterItems(Tail(items), flagKey)

filterTemplateByFlag(template, flagKey) ==
  LET filtered == filterNodeByFlag(template, flagKey)
  IN IF ~filtered.ok THEN NoMatch
     ELSE IF ~IsMap(filtered.node) THEN NoMatch
     ELSE filtered

applyTeaserFilter(template, cfg) ==
  IF ~cfg.Teaser THEN template
  ELSE LET filtered == filterTemplateByFlag(template, "@teaser")
       IN IF ~filtered.ok THEN template ELSE filtered.node

\* ------------------------------------------------------------ trees in memory
\* Go maps and slices are references. A heap maps an address to a container, a
\* map or a list whose entries are slots; a slot is a string or the address of
\* a container. An address is <<namespace, path>>: the namespace names the
\* allocation (the tree, the value, the copy), the path the place in it.
Ref(a) == [r |-> a]
IsRef(slot) == DOMAIN slot = {"r"}

\* strconv.Atoi, on the strings the model uses; a string outside is an error
Numerals == ("0" :> 0) @@ ("1" :> 1) @@ ("2" :> 2) @@ ("+1" :> 1) @@ ("-1" :> -1)
IndexStr(i) == CHOOSE str \in {"0", "1", "2"} : Numerals[str] = i

\* The places of the containers of a tree, as paths of keys and indices
RECURSIVE ContainerPaths(_)
ContainerPaths(node) ==
  IF IsMap(node)
    THEN {<<>>} \cup UNION {{<<key>> \o p : p \in ContainerPaths(node.m[key])} :
                              key \in DOMAIN node.m}
  ELSE IF IsList(node)
    THEN {<<>>} \cup UNION {{<<IndexStr(i - 1)>> \o p : p \in ContainerPaths(node.l[i])} :
                              i \in DOMAIN node.l}
  ELSE {}

\* The node of a tree at one of its places
RECURSIVE nodeAt(_, _)
nodeAt(node, p) ==
  IF p = <<>> THEN node
  ELSE IF IsMap(node) THEN nodeAt(node.m[Head(p)], Tail(p))
  ELSE nodeAt(node.l[Numerals[Head(p)] + 1], Tail(p))

\* The slot of a child: a string, an address it already is, or its own new address
slotFor(ns, child, p) == IF IsStr(child) \/ IsRef(child) THEN child ELSE Ref(<<ns, p>>)

\* The containers of a tree, allocated in namespace ns
allocIn(ns, tree) ==
  [a \in {<<ns, p>> : p \in ContainerPaths(tree)} |->
     LET n == nodeAt(tree, a[2])
     IN IF IsMap(n)
          THEN Map([key \in DOMAIN n.m |-> slotFor(ns, n.m[key], Append(a[2], key))])
          ELSE List([i \in DOMAIN n.l |->
                       slotFor(ns, n.l[i], Append(a[2], IndexStr(i - 1)))])]

\* The tree a slot stands for
RECURSIVE treeOf(_, _)
treeOf(heap, slot) ==
  IF ~IsRef(slot) THEN slot
  ELSE IF IsMap(heap[slot.r])
    THEN Map([key \in DOMAIN heap[slot.r].m |-> treeOf(heap, heap[slot.r].m[key])])
  ELSE List([i \in DOMAIN heap[slot.r].l |-> treeOf(heap, heap[slot.r].l[i])])

\* The containers a slot leads to
RECURSIVE reachable(_, _)
reachable(heap, slot) ==
  IF ~IsRef(slot) THEN {}
  ELSE {slot.r} \cup
    IF IsMap(heap[slot.r])
      THEN UNION {reachable(heap, heap[slot.r].m[key]) : key \in DOMAIN heap[slot.r].m}
      ELSE UNION {reachable(heap, heap[slot.r].l[i]) : i \in DOMAIN heap[slot.r].l}

\* a copy that makes a new top-level map and keeps the children of the original
deepCopyTopOnly(heap, slot, ns) ==
  IF ~IsRef(slot) THEN [heap |-> heap, slot |-> slot]
  ELSE [heap |-> (<<ns, <<>>>> :> heap[slot.r]) @@ heap, slot |-> Ref(<<ns, <<>>>>)]

\* deepCopy: a new map for every map, a new list for every list, the strings
\* as they are; the copy is allocated in namespace ns
deepCopy(heap, slot, ns) ==
  IF ~IsRef(slot) THEN [heap |-> heap, slot |-> slot]
  ELSE [heap |-> allocIn(ns, treeOf(heap, slot)) @@ heap, slot |-> Ref(<<ns, <<>>>>)]

\* an assignment that only overwrites a key the map has
putExisting(f, key, value) == [x \in DOMAIN f |-> IF x = key THEN value ELSE f[x]]

\* node[part] = value
put(f, key, value) == [x \in DOMAIN f \cup {key} |-> IF x = key THEN value ELSE f[x]]

\* delete(node, key)
remove(f, key) == [x \in DOMAIN f \ {key} |-> f[x]]

\* idx, err := strconv.Atoi(part); err != nil || idx < 0 || idx >= len(node)
badIndex(part, list) ==
  \/ part \notin DOMAIN Numerals
  \/ Numerals[part] < 0
  \/ Numerals[part] >= Len(list)

\* The loop of setAtPath from the i-th segment on, current being the node reached
RECURSIVE setAtPathFrom(_, _, _, _, _)
setAtPathFrom(heap, parts, i, current, value) ==
  IF i > Len(parts) THEN [ok |-> FALSE, heap |-> heap]
  ELSE LET part == TrimSpace(parts[i])
           isLast == i = Len(parts)
       IN IF part = "" THEN setAtPathFrom(heap, parts, i + 1, current, value)
          ELSE IF ~IsRef(current) THEN [ok |-> FALSE, heap |-> heap]
          ELSE IF IsMap(heap[current.r])
            THEN IF isLast
                   THEN [ok |-> TRUE,
                         heap |-> [heap EXCEPT ![current.r] = Map(put(@.m, part, value))]]
                 ELSE IF part \notin DOMAIN heap[current.r].m
                   THEN [ok |-> FALSE, heap |-> heap]
                 ELSE setAtPathFrom(heap, parts, i + 1, heap[current.r].m[part], value)
          ELSE IF badIndex(part, heap[current.r].l) THEN [ok |-> FALSE, heap |-> heap]
          ELSE IF isLast
            THEN [ok |-> TRUE,
                  heap |-> [heap EXCEPT ![current.r] =
                              List([@.l EXCEPT ![Numerals[part] + 1] = value])]]
          ELSE setAtPathFrom(heap, parts, i + 1, heap[current.r].l[Numerals[part] + 1], value)

setAtPath(heap, root, path, value) == setAtPathFrom(heap, Split(path), 1, root, value)

\* The loop of getAtPath from the i-th segment on
RECURSIVE getAtPathFrom(_, _, _, _)
getAtPathFrom(heap, parts, i, current) ==
  IF i > Len(parts) THEN [ok |-> TRUE, val |-> current]
  ELSE LET part == TrimSpace(parts[i])
       IN IF part = "" THEN getAtPathFrom(heap, parts, i + 1, current)
          ELSE IF ~IsRef(current) THEN [ok |-> FALSE, val |-> Str("")]
          ELSE IF IsMap(heap[current.r])
            THEN IF part \notin DOMAIN heap[current.r].m
                   THEN [ok |-> FALSE, val |-> Str("")]
                   ELSE getAtPathFrom(heap, parts, i + 1, heap[current.r].m[part])
          ELSE IF badIndex(part, heap[current.r].l) THEN [ok |-> FALSE, val |-> Str("")]
          ELSE getAtPathFrom(heap, parts, i + 1, heap[current.r].l[Numerals[part] + 1])

getAtPath(heap, root, path) == getAtPathFrom(heap, Split(path), 1, root)

\* ---------------------------------------------------------------- templates
\* A node bound to a field: its value is the record's field
Bound(field) ==
  Map(("@bind" :> Map(("field" :> Str(field)) @@ ("path" :> Str("value"))))
      @@ ("value" :> Str("A")))

\* A nested ContentRecords instance, a boundary by its plugin name
NestedInstance(template) ==
  Map(("@type" :> Str("<plugin>")) @@ ("plugin" :> Str("ContentRecords"))
      @@ ("data" :> Map(("template" :> template))))

\* A plugin node marked as a boundary in its data
MarkedBoundary(template) ==
  Map(("@type" :> Str("<PLUGIN>")) @@ ("plugin" :> Str("Markdown"))
      @@ ("data" :> Map(("boundary" :> Str("ON")) @@ ("template" :> template))))

\* A plugin node that is no boundary
OtherPlugin(template) ==
  Map(("@type" :> Str("<PLUGIN>")) @@ ("plugin" :> Str("Markdown"))
      @@ ("data" :> Map(("template" :> template))))

BodyOnly == Map(("p" :> Bound("body")))
TitleOnly == Map(("h" :> Bound("title")))
TitleAndBody == Map(("h" :> Bound("title")) @@ ("p" :> Bound("body")))

\* The templates of the model: title bound at the top, body bound at the top,
\* below a boundary (by name, by mark, in a list, two levels down, under an
\* attribute key) or below a plugin that is no boundary
Templates ==
  {TitleOnly,
   TitleAndBody,
   Map(("h" :> Bound("title")) @@ ("sub" :> NestedInstance(BodyOnly))),
   Map(("h" :> Bound("title")) @@ ("sub" :> MarkedBoundary(BodyOnly))),
   Map(("h" :> Bound("title")) @@ ("items" :> List(<<Str("x"), NestedInstance(BodyOnly)>>))),
   Map(("h" :> Bound("title")) @@ ("box" :> Map(("sub" :> NestedInstance(BodyOnly))))),
   Map(("h" :> Bound("title")) @@ ("@meta" :> NestedInstance(BodyOnly))),
   Map(("h" :> Bound("title")) @@ ("sub" :> OtherPlugin(BodyOnly)))}

\* A node that carries a @teaser flag
Teased(flag, node) == Map(("@teaser" :> Str(flag)) @@ node.m)

\* The values of a @teaser flag
TeaserFlags == {"true", "no", "False", "0", " "}

\* A template with a node below the top, below a boundary (by name, by mark, in
\* a list, two levels down, under an attribute key) or below a plugin that is
\* no boundary
Placed(node) ==
  {Map(("h" :> Bound("title")) @@ ("p" :> node)),
   Map(("h" :> Bound("title")) @@ ("sub" :> NestedInstance(Map(("p" :> node))))),
   Map(("h" :> Bound("title")) @@ ("sub" :> MarkedBoundary(Map(("p" :> node))))),
   Map(("h" :> Bound("title")) @@ ("items" :> List(<<Str("x"), NestedInstance(Map(("p" :> node)))>>))),
   Map(("h" :> Bound("title")) @@ ("items" :> List(<<Str("x"), node>>))),
   Map(("h" :> Bound("title")) @@ ("box" :> Map(("sub" :> NestedInstance(Map(("p" :> node))))))),
   Map(("h" :> Bound("title")) @@ ("@meta" :> NestedInstance(Map(("p" :> node))))),
   Map(("h" :> Bound("title")) @@ ("sub" :> OtherPlugin(Map(("p" :> node)))))}

\* A boundary that is bound to a field itself
BoundBoundary(field, template) ==
  Map(("@bind" :> Bound(field).m["@bind"]) @@ NestedInstance(template).m)

\* The templates the template functions are applied to: a body node, plain or
\* with a @teaser flag, in every place; a bound boundary; a field bound both
\* inside and outside a boundary
TemplateArgs ==
  Placed(Bound("body"))
    \cup UNION {Placed(Teased(flag, Bound("body"))) : flag \in TeaserFlags}
    \cup {Map(("h" :> Bound("title")) @@ ("sub" :> BoundBoundary("body", TitleOnly))),
          Map(("h" :> Bound("title")) @@ ("sub" :> NestedInstance(TitleAndBody))),
          Map(("h" :> Teased("true", Bound("title"))) @@ ("sub" :> NestedInstance(BodyOnly)))}

\* Templates that bind one field more than once: on two siblings, on a node and
\* on a node below it, on the top of the template and below it
Duplicates ==
  {Map(("h" :> Bound("title")) @@ ("p" :> Bound("title"))),
   Map(("h" :> Bound("title")) @@ ("box" :> Map(("p" :> Bound("title")) @@ ("q" :> Bound("body"))))),
   Map(("@bind" :> Bound("title").m["@bind"]) @@ ("h" :> Bound("title")) @@ ("p" :> Bound("body"))),
   Map(("h" :> Bound("body")) @@ ("p" :> Bound("body")) @@ ("q" :> Bound("body")))}

\* binds[field] = bindTarget{Path: fullPath}, whatever binds holds for the field
registerLast(binds, b) ==
  [field \in DOMAIN binds \cup {b.field} |-> IF field = b.field THEN b.path ELSE binds[field]]

\* if _, exists := binds[field]; !exists { binds[field] = bindTarget{Path: fullPath} }
register(binds, b) ==
  IF b.field \in DOMAIN binds THEN binds
  ELSE [field \in DOMAIN binds \cup {b.field} |->
          IF field = b.field THEN b.path ELSE binds[field]]

\* The orders in which a range over a map may yield a set of keys
Orders(keys) ==
  {q \in [1..Cardinality(keys) -> keys] : \A i, j \in DOMAIN q : i # j => q[i] # q[j]}

NoSeedCall == [pc |-> "idle", type |-> "", default |-> "", count |-> 0]

NoWalk == [pc |-> "idle", template |-> Str(""), stack |-> <<>>, binds |-> <<>>, visited |-> <<>>]

NoTemplateCall ==
  [pc |-> "idle", template |-> Str(""), teaser |-> FALSE, binds |-> {},
   filtered |-> NoMatch, out |-> Str("")]

\* ------------------------------------------------------------ the materializer
\* The element of a set of one element: The({e(x) : x \in {v}}) is e with x the
\* value of v, computed once
The(S) == CHOOSE x \in S : TRUE

\* The configured template lives in namespace "T", a filtered template in "F",
\* the instance of the i-th record in CopyNs[i], its edit link in LinkNs[i] and
\* the list of the instances in "L".
TemplateRoot == Ref(<<"T", <<>>>>)
CopyNs == <<"C1", "C2">>
LinkNs == <<"E1", "E2">>

\* strconv.Itoa((i + 1) * 10), for the records of the model
ListKeys == <<"10", "20">>

\* out[key] = child under an "@" key: a string by value, a map or a list as the
\* template's own container, which lives at the place at
keptChild(child, at) == IF IsStr(child) THEN child ELSE Ref(<<"T", at>>)

\* filterNodeByFlag on the template in memory: the tree it returns, in which a
\* container taken over from the template is the address of that container;
\* at is the place of node in the template
RECURSIVE filterNodeByFlagAt(_, _, _), filterItemsAt(_, _, _, _)
filterNodeByFlagAt(node, flagKey, at) ==
  IF IsMap(node)
    THEN IF hasFlag(node.m, flagKey) THEN [ok |-> TRUE, node |-> node]
         ELSE IF isBoundaryPlugin(node.m) THEN NoMatch
         ELSE LET f == node.m
                  matched == {key \in DOMAIN f :
                                ~HasAtPrefix(key) /\ filterNodeByFlag(f[key], flagKey).ok}
                  copied == {key \in DOMAIN f : HasAtPrefix(key) \/ IsStr(f[key])}
              IN IF matched = {} THEN NoMatch
                 ELSE [ok |-> TRUE,
                       node |-> Map([key \in matched \cup copied |->
                                       IF key \in matched
                                         THEN filterNodeByFlagAt(f[key], flagKey,
                                                                 Append(at, key)).node
                                         ELSE keptChild(f[key], Append(at, key))])]
  ELSE IF IsList(node)
    THEN LET out == filterItemsAt(node.l, flagKey, at, 0)
         IN IF Len(out) = 0 THEN NoMatch ELSE [ok |-> TRUE, node |-> List(out)]
  ELSE NoMatch

filterItemsAt(items, flagKey, at, i) ==
  IF items = <<>> THEN <<>>
  ELSE LET filtered == filterNodeByFlagAt(Head(items), flagKey, Append(at, IndexStr(i)))
       IN (IF filtered.ok THEN <<filtered.node>> ELSE <<>>)
            \o filterItemsAt(Tail(items), flagKey, at, i + 1)

\* applyTeaserFilter on the template in memory: the template itself, or the
\* filtered tree newly allocated
applyTeaserFilterAt(heap, template, cfg) ==
  IF ~cfg.Teaser THEN [heap |-> heap, slot |-> template]
  ELSE The({IF ~filtered.ok \/ ~IsMap(filtered.node) THEN [heap |-> heap, slot |-> template]
            ELSE [heap |-> allocIn("F", filtered.node) @@ heap, slot |-> Ref(<<"F", <<>>>>)] :
              filtered \in {filterNodeByFlagAt(tree, "@teaser", <<>>) :
                              tree \in {treeOf(heap, template)}}})

\* The keys stripPluginMetaKeys deletes
MetaKeys == {"@bind", "@name", "@list", "@teaser"}

\* The maps stripPluginMetaKeys deletes keys from: the node if it is a map and
\* no boundary, and what the children it keeps lead to
RECURSIVE strippedMaps(_, _)
strippedMaps(heap, slot) ==
  IF ~IsRef(slot) THEN {}
  ELSE IF IsMap(heap[slot.r])
    THEN IF isBoundaryPlugin(treeOf(heap, slot).m) THEN {}
         ELSE {slot.r} \cup
                UNION {strippedMaps(heap, heap[slot.r].m[key]) :
                         key \in DOMAIN heap[slot.r].m \ MetaKeys}
  ELSE UNION {strippedMaps(heap, heap[slot.r].l[i]) : i \in DOMAIN heap[slot.r].l}

\* stripPluginMetaKeys: the heap after the deletes
stripPluginMetaKeys(heap, slot) ==
  The({[a \in DOMAIN heap |->
          IF a \in maps
            THEN Map([key \in DOMAIN heap[a].m \ MetaKeys |-> heap[a].m[key]])
            ELSE heap[a]] : maps \in {strippedMaps(heap, slot)}})

\* The Bind Index of a template whose fields are bound once each: field -> path,
\* the path as the sequence of its segments
bindIndex(template) ==
  [field \in bindKeys(template) |->
     (CHOOSE b \in collectBinds(template.m, <<>>) : b.field = field).path]

\* The bind a schema entry stands for: its bind, the bind at its path, its name
schemaBind(name, def, binds) ==
  LET bind == TrimSpace(def.Bind)
      atPath == {key \in DOMAIN binds : binds[key] = Split(TrimSpace(def.Path))}
  IN IF bind # "" THEN bind
     ELSE IF TrimSpace(def.Path) # "" /\ atPath # {} THEN CHOOSE key \in atPath : TRUE
     ELSE name

collectImageBinds(cfg, binds) ==
  {schemaBind(name, cfg.schema[name], binds) :
     name \in {n \in DOMAIN cfg.schema :
                 ToLower(TrimSpace(cfg.schema[n].Type)) = "image"}} \cap DOMAIN binds

\* a test that never keeps the template's content
writesEmptyImage(value, bindKey, imageBinds) == FALSE

\* value == "" and the bind is an image bind: the write is skipped
keepsImage(value, bindKey, imageBinds) == value = "" /\ bindKey \in imageBinds

\* The loop over rec.Fields, in the order the range yields the keys
RECURSIVE writeFields(_, _, _, _, _, _)
writeFields(heap, instance, binds, imageBinds, recFields, order) ==
  IF order = <<>> THEN heap
  ELSE LET bindKey == Head(order)
           value == recFields[bindKey]
           written ==
             IF bindKey \notin DOMAIN binds THEN heap
             ELSE IF keepsImage(value, bindKey, imageBinds) THEN heap
             ELSE setAtPathFrom(heap, binds[bindKey], 1, instance, Str(value)).heap
       IN The({writeFields(next, instance, binds, imageBinds, recFields, Tail(order)) :
                 next \in {written}})

\* The wrappers of applyInlineWrapper, by bind key; the id, type and value
\* attributes they carry are left out
BlockWrapper ==
  ("title" :> "<div class=cr-inline data-cr-bind=title>|</div>")
  @@ ("body" :> "<div class=cr-inline data-cr-bind=body>|</div>")

\* strings.Replace(existing, "|", inlineWrapper, 1), on the enclosure the model uses
Spliced ==
  ("title" :> "<b><span class=cr-inline data-cr-bind=title>|</span></b>")
  @@ ("body" :> "<b><span class=cr-inline data-cr-bind=body>|</span></b>")

\* strings.Contains(existing, "data-cr-bind=") || strings.Contains(existing, "cr-inline")
hasInlineMark(existing) ==
  existing \in {BlockWrapper[k] : k \in DOMAIN BlockWrapper}
                 \cup {Spliced[k] : k \in DOMAIN Spliced}

applyInlineWrapper(heap, node, bindKey) ==
  LET f == heap[node.r].m
      isString == "enclose" \in DOMAIN f /\ IsStr(f["enclose"])
  IN IF isString /\ TrimSpace(f["enclose"].s) # ""
       THEN IF hasInlineMark(f["enclose"].s) THEN heap
            ELSE [heap EXCEPT ![node.r] = Map(put(@.m, "enclose", Str(Spliced[bindKey])))]
       ELSE [heap EXCEPT ![node.r] = Map(put(@.m, "enclose", Str(BlockWrapper[bindKey])))]

\* No node
Nil == [nil |-> TRUE]

\* getNodeAtPath: the map at a path, the path as its segments
getNodeAtPath(heap, root, parts) ==
  IF parts = <<>> THEN root
  ELSE LET got == getAtPathFrom(heap, parts, 1, root)
       IN IF got.ok /\ IsRef(got.val) /\ IsMap(heap[got.val.r]) THEN got.val ELSE Nil

\* The loop of findInlineNode: the nearest node at or above current with a @type
RECURSIVE nearestTyped(_, _, _)
nearestTyped(heap, root, current) ==
  LET node == getNodeAtPath(heap, root, current)
      typed == /\ IsRef(node)
               /\ "@type" \in DOMAIN heap[node.r].m
               /\ IsStr(heap[node.r].m["@type"])
               /\ TrimSpace(heap[node.r].m["@type"].s) # ""
  IN IF typed THEN node
     ELSE IF current = <<>> THEN Nil
     ELSE nearestTyped(heap, root, SubSeq(current, 1, Len(current) - 1))

findInlineNode(heap, root, path) ==
  LET found == nearestTyped(heap, root, path)
  IN IF IsRef(found) THEN found ELSE getNodeAtPath(heap, root, path)

\* The loop of applyInlineAttributes over binds, in the order the range yields
RECURSIVE applyInlineAttributes(_, _, _, _, _)
applyInlineAttributes(heap, instance, binds, inline, order) ==
  IF ~inline \/ order = <<>> THEN heap
  ELSE LET bindKey == Head(order)
           target == binds[bindKey]
           node == findInlineNode(heap, instance, SubSeq(target, 1, Len(target) - 1))
           isTree == /\ "@type" \in DOMAIN heap[node.r].m
                     /\ heap[node.r].m["@type"] = Str("<TREE>")
           wrapped == IF ~IsRef(node) THEN heap
                      ELSE IF isTree THEN heap
                      ELSE applyInlineWrapper(heap, node, bindKey)
       IN The({applyInlineAttributes(next, instance, binds, inline, Tail(order)) :
                 next \in {wrapped}})

\* The anchor of the edit link of a record
EditLinks ==
  <<"<a class=content-recs-edit-link href=/edit?id=1>Edit</a>",
    "<a class=content-recs-edit-link href=/edit?id=2>Edit</a>">>

\* addEditLink; the new node is allocated in namespace ns
addEditLink(heap, instance, route, id, ns) ==
  IF TrimSpace(route) = "" THEN heap
  ELSE IF "_edit" \in DOMAIN heap[instance.r].m THEN heap
  ELSE (<<ns, <<>>>> :> Map(("@type" :> Str("<HTML>")) @@ ("value" :> Str(EditLinks[id]))))
         @@ [heap EXCEPT ![instance.r] = Map(put(@.m, "_edit", Ref(<<ns, <<>>>>)))]

\* The keys of a map in the order a range yields them
keysIn(order, keys) == LET held(key) == key \in keys IN SelectSeq(order, held)

\* One pass of the loop of buildList: the instance of the i-th record. order is
\* the order in which the ranges over rec.Fields and over binds yield their keys.
\* The steps, from the innermost on: deepCopy, stripPluginMetaKeys, the writes,
\* addEditLink, applyInlineAttributes.
buildInstance(heap, template, binds, rec, imageBinds, editable, route, inline, order, i) ==
  The({applyInlineAttributes(linked.heap, linked.slot, binds, inline,
                             keysIn(order.binds, DOMAIN binds)) :
         linked \in
           {IF editable /\ TrimSpace(route) # ""
              THEN [heap |-> addEditLink(written.heap, written.slot, route, rec.ID, LinkNs[i]),
                    slot |-> written.slot]
              ELSE written :
              written \in
                {[heap |-> writeFields(stripped.heap, stripped.slot, binds, imageBinds,
                                       rec.Fields, keysIn(order.fields, DOMAIN rec.Fields)),
                  slot |-> stripped.slot] :
                   stripped \in
                     {[heap |-> stripPluginMetaKeys(copied.heap, copied.slot),
                       slot |-> copied.slot] :
                        copied \in {deepCopy(heap, template, CopyNs[i])}}}}})

\* buildList from the i-th record on, and the list it returns
RECURSIVE buildListFrom(_, _, _, _, _, _, _, _, _, _)
buildListFrom(heap, template, binds, recs, imageBinds, editable, route, inline, order, i) ==
  IF i > Len(recs) THEN heap
  ELSE The({buildListFrom(next, template, binds, recs, imageBinds, editable, route, inline,
                          order, i + 1) :
              next \in {buildInstance(heap, template, binds, recs[i], imageBinds, editable,
                                      route, inline, order, i)}})

buildList(heap, template, binds, recs, imageBinds, editable, route, inline, order) ==
  LET list == [key \in {"@type"} \cup {ListKeys[i] : i \in DOMAIN recs} |->
                 IF key = "@type" THEN Str("<TREE>")
                 ELSE Ref(<<CopyNs[CHOOSE i \in DOMAIN recs : ListKeys[i] = key], <<>>>>)]
  IN The({[heap |-> (<<"L", <<>>>> :> Map(list)) @@ built, out |-> Ref(<<"L", <<>>>>)] :
            built \in {buildListFrom(heap, template, binds, recs, imageBinds, editable,
                                     route, inline, order, 1)}})

\* The materialization of renderSingleRender, from applyTeaserFilter on. The
\* steps, from the innermost on: applyTeaserFilter and deepCopy,
\* stripPluginMetaKeys, the writes, applyInlineAttributes, addEditLink.
renderSingleRender(heap, template, binds, rec, cfg, order) ==
  The({[heap |-> IF cfg.Editable /\ TrimSpace(cfg.EditRoute) # ""
                   THEN addEditLink(wrapped.heap, wrapped.slot, cfg.EditRoute, rec.ID,
                                    LinkNs[1])
                   ELSE wrapped.heap,
         out |-> wrapped.slot] :
         wrapped \in
           {[heap |-> applyInlineAttributes(written.heap, written.slot, binds, cfg.Inline,
                                            keysIn(order.binds, DOMAIN binds)),
             slot |-> written.slot] :
              written \in
                {[heap |-> writeFields(stripped.heap, stripped.slot, binds,
                                       collectImageBinds(cfg, binds), rec.Fields,
                                       keysIn(order.fields, DOMAIN rec.Fields)),
                  slot |-> stripped.slot] :
                   stripped \in
                     {[heap |-> stripPluginMetaKeys(copied.heap, copied.slot),
                       slot |-> copied.slot] :
                        copied \in
                          {deepCopy(filtered.heap, filtered.slot, CopyNs[1]) :
                             filtered \in {applyTeaserFilterAt(heap, template, cfg)}}}}}})

\* The materialization of renderListRender, from collectImageBinds on
renderListRender(heap, template, binds, recs, cfg, order) ==
  The({buildList(filtered.heap, filtered.slot, binds, recs, imageBinds, cfg.Editable,
                 cfg.EditRoute, cfg.Inline, order) :
         imageBinds \in {collectImageBinds(cfg, binds)},
         filtered \in {applyTeaserFilterAt(heap, template, cfg)}})

\* The preview of renderListEdit (in buildCMSValues) and of renderSingleEdit
preview(heap, template, binds, recs, cfg, order) ==
  IF ~cfg.Preview THEN [heap |-> heap, out |-> Nil]
  ELSE The({buildList(heap, template, binds, recs, imageBinds, FALSE, "", FALSE, order) :
              imageBinds \in {collectImageBinds(cfg, binds)}})

\* The materialization of a Render call in the mode of its configuration: the
\* heap after it and the tree it has built
materialize(heap, template, binds, recs, cfg, order) ==
  IF cfg.view = "list" /\ cfg.action = "render"
    THEN renderListRender(heap, template, binds, recs, cfg, order)
  ELSE IF cfg.view = "single" /\ cfg.action = "render"
    THEN renderSingleRender(heap, template, binds, recs[1], cfg, order)
  ELSE IF cfg.view = "list"
    THEN preview(heap, template, binds, recs, cfg, order)
  ELSE preview(heap, template, binds, <<recs[1]>>, cfg, order)

\* A bound node of a kind, with an enclosure of its own
Enclosed(field) ==
  Map(("@type" :> Str("<HTML>")) @@ ("enclose" :> Str("<b>|</b>")) @@ Bound(field).m)

\* The templates instances are made of: two bound nodes; one of them a teaser;
\* a teaser beside a map under an "@" key; a container of kind <TREE> with a
\* bound node of a kind below it; a template of a kind; a boundary; a list; a
\* template with an edit link of its own
RenderTemplates ==
  {TitleAndBody,
   Map(("h" :> Teased("true", Bound("title"))) @@ ("p" :> Bound("body"))),
   Map(("@meta" :> Map(("k" :> Str("v")))) @@ ("t" :> Str("x"))
       @@ ("h" :> Teased("true", Bound("title"))) @@ ("p" :> Bound("body"))),
   Map(("@type" :> Str("<TREE>")) @@ ("h" :> Enclosed("title")) @@ ("p" :> Bound("body"))),
   Map(("@type" :> Str("<HTML>")) @@ ("@name" :> Str("n")) @@ ("h" :> Bound("title"))),
   Map(("h" :> Bound("title")) @@ ("sub" :> NestedInstance(BodyOnly))),
   Map(("h" :> Bound("title"))
       @@ ("items" :> List(<<Str("x"), Teased("true", Map(("k" :> Str("v"))))>>))),
   Map(("h" :> Bound("title")) @@ ("_edit" :> Str("x")))}

\* The fields of a record: title and body, each missing, empty or set
FieldMaps == UNION {[bound -> {"", "B"}] : bound \in SUBSET Keys}

\* The records a call has fetched: one record, or two of which the second has
\* a field no node is bound to
RecordLists ==
  {<<[ID |-> 1, Fields |-> f]>> : f \in FieldMaps}
    \cup {<<[ID |-> 1, Fields |-> ("title" :> "B") @@ ("body" :> "")],
             [ID |-> 2, Fields |-> ("title" :> "C") @@ ("extra" :> "B")]>>}

\* The orders in which a range yields the keys of rec.Fields and of binds
KeyOrders ==
  {[fields |-> <<"title", "body", "extra">>, binds |-> <<"title", "body">>],
   [fields |-> <<"extra", "body", "title">>, binds |-> <<"body", "title">>]}

\* The schemas of the model: none, body an image by its name, an image by its
\* bind, an image by its path
Schemas ==
  {<<>>,
   ("body" :> [Type |-> "image", Bind |-> "", Path |-> ""]),
   ("pic" :> [Type |-> " Image", Bind |-> " body", Path |-> ""]),
   ("pic" :> [Type |-> "image", Bind |-> "", Path |-> "p.value"])}

\* Editable and the edit route: off, on without a route, on with a route
EditOptions == {<<FALSE, "/edit">>, <<TRUE, " ">>, <<TRUE, "/edit">>}

\* The configurations: in the render modes every combination of the options
\* without a schema and every schema with the options off; in the edit modes,
\* which consult none of the options, all of them off or all of them on
RenderCfgs ==
  {[view |-> view, action |-> "render", Teaser |-> teaser, Inline |-> inline,
    Editable |-> edit[1], EditRoute |-> edit[2], Preview |-> TRUE, schema |-> <<>>] :
     view \in {"list", "single"}, teaser \in BOOLEAN, inline \in BOOLEAN,
     edit \in EditOptions}
    \cup [view : {"list", "single"}, action : {"render"}, Teaser : {FALSE}, Inline : {FALSE},
          Editable : {FALSE}, EditRoute : {"/edit"}, Preview : {TRUE},
          schema : Schemas \ {<<>>}]
    \cup UNION {[view : {"list", "single"}, action : {"edit"}, Teaser : {on}, Inline : {on},
                 Editable : {on}, EditRoute : {"/edit"}, Preview : BOOLEAN,
                 schema : {<<>>, ("body" :> [Type |-> "image", Bind |-> "", Path |-> ""])}] :
                  on \in BOOLEAN}

NoRender ==
  [pc |-> "idle", template |-> Str(""), cfg |-> <<>>, records |-> <<>>, order |-> <<>>,
   heap |-> <<>>, out |-> Nil]

\* ------------------------------------------------------- normalization
\* A map decoded as map[interface{}]interface{}: its keys are any values. The
\* key "#1" stands for the integer 1, every other key for the string it is.
IMap(f) == [im |-> f]
IsIMap(n) == DOMAIN n = {"im"}

\* key, ok := k.(string); if !ok { key = fmt.Sprintf("%v", k) }
Sprint(k) == IF k = "#1" THEN "1" ELSE k

RECURSIVE normalizeInterfaceMap(_), normalizeSlice(_)
normalizeInterfaceMap(value) ==
  [key \in {Sprint(k) : k \in DOMAIN value} |->
     LET child == value[CHOOSE k \in DOMAIN value : Sprint(k) = key]
     IN IF IsMap(child) THEN child
        ELSE IF IsIMap(child) THEN Map(normalizeInterfaceMap(child.im))
        ELSE IF IsList(child) THEN List(normalizeSlice(child.l))
        ELSE child]

normalizeSlice(values) ==
  [i \in DOMAIN values |->
     IF IsMap(values[i]) THEN values[i]
     ELSE IF IsIMap(values[i]) THEN Map(normalizeInterfaceMap(values[i].im))
     ELSE IF IsList(values[i]) THEN List(normalizeSlice(values[i].l))
     ELSE values[i]]

normalizeToStringMap(value) ==
  IF IsMap(value) THEN [ok |-> TRUE, node |-> value]
  ELSE IF IsIMap(value) THEN [ok |-> TRUE, node |-> Map(normalizeInterfaceMap(value.im))]
  ELSE [ok |-> FALSE, node |-> Str("")]

\* The trees of depth n at most: a string, or a string-keyed map, a map with
\* any keys (a string key or an integer key) or a list that holds such a tree
RECURSIVE RawTrees(_)
RawTrees(n) ==
  IF n = 0 THEN {Str("x")}
  ELSE RawTrees(n - 1) \cup
       UNION {{Map(("a" :> t)), IMap(("a" :> t)), IMap(("#1" :> t)), List(<<t>>)} :
                t \in RawTrees(n - 1)}

\* The values a configuration may give as its template
TemplateValues == RawTrees(MaxDepth)

NoNormalize ==
  [pc |-> "idle", input |-> Str(""), ok |-> FALSE, out |-> Str(""), again |-> Str("")]

\* ------------------------------------------------------- the request body
\* The bytes of a body are a sequence of tokens: the braces of a JSON object,
\* white space, members of an object, and a token that is no JSON
Members ==
  ("bind:title" :> [k |-> "bind", v |-> "title"])
  @@ ("bind:body" :> [k |-> "bind", v |-> "body"])
  @@ ("inline:1" :> [k |-> "cr_inline", v |-> "1"])
Tokens == {"{", "}", " ", "x"} \cup DOMAIN Members

\* bytes.TrimSpace
RECURSIVE TrimLeft(_)
TrimLeft(bytes) ==
  IF bytes # <<>> /\ Head(bytes) = " " THEN TrimLeft(Tail(bytes)) ELSE bytes

RECURSIVE TrimRight(_)
TrimRight(bytes) ==
  IF bytes # <<>> /\ bytes[Len(bytes)] = " "
    THEN TrimRight(SubSeq(bytes, 1, Len(bytes) - 1))
    ELSE bytes

TrimBytes(bytes) == TrimRight(TrimLeft(bytes))

\* The members of an object read from its first member on: the decoder stops at
\* the closing brace, a later member replaces an earlier one with the same key
RECURSIVE decodeMembers(_, _)
decodeMembers(bytes, payload) ==
  IF bytes = <<>> THEN [err |-> "unexpected EOF", payload |-> <<>>]
  ELSE IF Head(bytes) = "}" THEN [err |-> "nil", payload |-> payload]
  ELSE IF Head(bytes) = " " THEN decodeMembers(Tail(bytes), payload)
  ELSE IF Head(bytes) \in DOMAIN Members
    THEN decodeMembers(Tail(bytes),
           [key \in DOMAIN payload \cup {Members[Head(bytes)].k} |->
              IF key = Members[Head(bytes)].k THEN Members[Head(bytes)].v ELSE payload[key]])
  ELSE [err |-> "invalid character", payload |-> <<>>]

\* decoder.Decode(&payload) on bytes that are not all white space
decodeObject(bytes) ==
  IF Head(TrimLeft(bytes)) = "{" THEN decodeMembers(Tail(TrimLeft(bytes)), <<>>)
  ELSE [err |-> "invalid character", payload |-> <<>>]

NoBody == [nil |-> TRUE, data |-> <<>>, off |-> 0]
Reader(bytes) == [nil |-> FALSE, data |-> bytes, off |-> 0]

\* io.ReadAll(req.Body): the bytes from the reader's place to its end
ReadAll(body) == SubSeq(body.data, body.off + 1, Len(body.data))

\* a decoder that leaves the body where reading it ended
decodeInlineJSONConsumes(body) ==
  IF body.nil THEN [err |-> "nil", payload |-> <<>>, body |-> body]
  ELSE LET bodyBytes == ReadAll(body)
           left == [body EXCEPT !.off = Len(body.data)]
       IN IF Len(TrimBytes(bodyBytes)) = 0
            THEN [err |-> "nil", payload |-> <<>>, body |-> left]
            ELSE [err |-> decodeObject(bodyBytes).err,
                  payload |-> decodeObject(bodyBytes).payload, body |-> left]

\* decodeInlineJSON: what it returns, and the body it leaves in the request
decodeInlineJSON(body) ==
  IF body.nil THEN [err |-> "nil", payload |-> <<>>, body |-> body]
  ELSE LET bodyBytes == ReadAll(body)
           restored == Reader(bodyBytes)
       IN IF Len(TrimBytes(bodyBytes)) = 0
            THEN [err |-> "nil", payload |-> <<>>, body |-> restored]
            ELSE [err |-> decodeObject(bodyBytes).err,
                  payload |-> decodeObject(bodyBytes).payload, body |-> restored]

\* The bodies a request may carry
RECURSIVE BytesUpTo(_)
BytesUpTo(n) ==
  IF n = 0 THEN {<<>>}
  ELSE BytesUpTo(n - 1) \cup
       {Append(bytes, t) : bytes \in {b \in BytesUpTo(n - 1) : Len(b) = n - 1}, t \in Tokens}
Bodies == {NoBody} \cup {Reader(bytes) : bytes \in BytesUpTo(MaxBody)}

NoRequest == [pc |-> "idle", sent |-> NoBody, body |-> NoBody, results |-> <<>>]

\* ------------------------------------------------------ inline-edit handler
\* inlineMode: the instance has inline editing on and the activation
\* parameter of the request is truthy
inlineMode(cfg, req) == cfg.inline /\ parseBoolFlag(req.edit)

\* parseInlinePayload: a JSON body that does not decode is an error; the
\* flag, the record id and the bind key are trimmed, the value is taken as is
parseInlinePayload(req) ==
  IF req.ctype = "json" /\ req.bad
    THEN [err |-> "invalid", Inline |-> "", RecordID |-> "", Bind |-> "", Value |-> ""]
    ELSE [err |-> "nil",
          Inline |-> TrimSpace(req.inline),
          RecordID |-> TrimSpace(req.record_id),
          Bind |-> TrimSpace(req.bind),
          Value |-> req.value]

\* hasFileUpload(req, "file", bindKey)
hasFileUpload(req) == req.ctype = "multipart" /\ req.file # "none"

\* The response map handed to writeInlineJSON
ErrorBody(msg) == [error |-> msg]
OkBody(recordID, bindKey, value) ==
  [status |-> "ok", record_id |-> FormatInt(recordID), bind |-> bindKey, value |-> value]

\* What handleInlineUpdate returns with the store it leaves
Handled(status, body, r) == [handled |-> TRUE, status |-> status, body |-> body, r |-> r]
Declined(r) == [handled |-> FALSE, status |-> 0, body |-> <<>>, r |-> r]

\* a handler that stores the scalar value even when a file was uploaded
uploadedValueIgnored(req, cfg, value) == value

\* The value to store: the path of the saved upload takes the place of the
\* scalar value of a multipart request
uploadedValue(req, cfg, value) ==
  IF req.ctype = "multipart" /\ cfg.uploadDir # "" /\ req.file # "none"
    THEN SavedPath
    ELSE value

handleInlineUpdate(recs, flds, sq, req, cfg) ==
  LET same == Result("nil", 0, recs, flds, sq, FALSE)
      payload == parseInlinePayload(req)
      bindKey == TrimSpace(payload.Bind)
      fromPayload == parseRecordID(TrimSpace(payload.RecordID))
      recordID == IF fromPayload = 0 THEN parseRecordID(req.query_id) ELSE fromPayload
      value == uploadedValue(req, cfg, payload.Value)
      upd == updateRecordField(recs, flds, sq, recordID, cfg.contentType, bindKey, value)
  IN IF req.method # "POST" THEN Declined(same)
     ELSE IF payload.err # "nil" THEN Handled(400, ErrorBody("invalid inline payload"), same)
     ELSE IF ~parseBoolFlag(payload.Inline) THEN Declined(same)
     ELSE IF bindKey = "" THEN Handled(400, ErrorBody("bind is required"), same)
     ELSE IF bindKey \notin bindKeys(cfg.template)
       THEN IF hasBoundaryPlugin(cfg.template) THEN Declined(same)
            ELSE Handled(400, ErrorBody("unknown bind"), same)
     ELSE IF recordID = 0 THEN Handled(400, ErrorBody("record_id is required"), same)
     ELSE IF req.ctype = "multipart" /\ cfg.uploadDir = "" /\ hasFileUpload(req)
       THEN Handled(400, ErrorBody("upload_dir is required for file uploads"), same)
     ELSE IF req.ctype = "multipart" /\ cfg.uploadDir # "" /\ req.file # "none"
             /\ req.save = "fail"
       THEN Handled(400, ErrorBody("upload failed"), same)
     ELSE IF upd.err # "nil" THEN Handled(500, ErrorBody("update failed"), upd)
     ELSE Handled(200, OkBody(recordID, bindKey, value), upd)

\* loadTemplateAndDB: the store after the seed step of an instance that seeds
\* (every bound node of the model's templates holds "A")
loadTemplateAndDB(recs, flds, sq, cfg) ==
  LET defaults == [k \in bindKeys(cfg.template) |-> "A"]
  IN IF cfg.seed THEN ensureSeed(recs, flds, sq, defaults, cfg.contentType)
     ELSE Result("nil", 0, recs, flds, sq, FALSE)

\* loadTemplateAndDB, then the handler when inline mode is engaged: the part of
\* a render-mode Render call that comes before the records are fetched
renderInline(recs, flds, sq, req, cfg) ==
  LET seeded == loadTemplateAndDB(recs, flds, sq, cfg)
      h == handleInlineUpdate(seeded.records, seeded.fields, seeded.seq, req, cfg)
  IN IF inlineMode(cfg, req)
       THEN [h EXCEPT !.r.open = seeded.open \/ h.r.open]
       ELSE Declined(seeded)

\* ------------------------------------------------------- single+edit mode
\* resolveSingleRecordID: the configured id, else the id of the query string
resolveSingleRecordID(cfg, req) ==
  IF cfg.id # 0 THEN cfg.id ELSE parseRecordID(req.query_id)

\* redirectIfPossible(ctx, resolveListRoute(fields))
redirectIfPossible(cfg, req) == TrimSpace(cfg.listRoute) # "" /\ req.writer

\* The switch on the form's action: the store it leaves, the record id the
\* routine goes on with, and whether the action succeeded
applyEditAction(r, action, recordID, contentType, values) ==
  IF action = "update"
    THEN IF recordID = 0
           THEN LET c == createRecord(r.records, r.fields, r.seq, contentType, values)
                IN [r |-> c, id |-> IF c.err = "nil" THEN c.id ELSE 0, success |-> c.err = "nil"]
           ELSE LET u == updateRecord(r.records, r.fields, r.seq, recordID, contentType, values)
                IN [r |-> u, id |-> recordID, success |-> u.err = "nil"]
  ELSE IF action = "delete"
    THEN IF recordID # 0
           THEN LET d == deleteRecord(r.records, r.fields, r.seq, recordID, contentType)
                IN [r |-> d, id |-> 0, success |-> d.err = "nil"]
           ELSE [r |-> r, id |-> recordID, success |-> FALSE]
  ELSE IF action = "create"
    THEN LET c == createRecord(r.records, r.fields, r.seq, contentType, values)
         IN [r |-> c, id |-> IF c.err = "nil" THEN c.id ELSE recordID, success |-> c.err = "nil"]
  ELSE [r |-> r, id |-> recordID, success |-> FALSE]

\* renderSingleEdit: the store it leaves, the record id the form's action was
\* aimed at, and what it returns
renderSingleEdit(recs, flds, sq, req, cfg) ==
  LET seeded == loadTemplateAndDB(recs, flds, sq, cfg)
      post == req.method = "POST"
      action == IF post THEN ToLower(TrimSpace(req.action)) ELSE ""
      formID == IF post THEN parseRecordID(req.record_id) ELSE 0
      recordID == IF formID # 0 THEN formID ELSE resolveSingleRecordID(cfg, req)
      values == [k \in bindKeys(cfg.template) |-> req.value]
      defaults == [k \in bindKeys(cfg.template) |-> "A"]
      acted == IF post
                 THEN applyEditAction(seeded, action, recordID, cfg.contentType, values)
                 ELSE [r |-> seeded, id |-> recordID, success |-> FALSE]
      open(r) == seeded.open \/ acted.r.open \/ r.open
  IN IF action # "" /\ acted.success /\ redirectIfPossible(cfg, req)
       THEN [r |-> [acted.r EXCEPT !.open = open(acted.r)], target |-> recordID,
             out |-> "redirect"]
     ELSE LET made == IF acted.id = 0
                        THEN createRecord(acted.r.records, acted.r.fields, acted.r.seq,
                                          cfg.contentType, defaults)
                        ELSE acted.r
              id == IF acted.id # 0 THEN acted.id
                    ELSE IF made.err = "nil" THEN made.id ELSE 0
              rec == fetchRecordByID(made.records, made.fields, id, cfg.contentType)
          IN [r |-> [made EXCEPT !.open = open(made)], target |-> recordID,
              out |-> IF rec.err = "nil" THEN "edit form" ELSE "fetch record failed"]

\* The requests and the configurations of single+edit calls
EditReqs ==
  [method : {"GET", "POST"}, action : {"", "update", " Delete", "create"},
   record_id : {"", "1"}, query_id : {"", DecStr[MaxId]}, value : {"B"}, writer : BOOLEAN]
EditCfgs ==
  [id : {0, 1}, listRoute : {" ", "/list"}, seed : BOOLEAN, contentType : Types,
   template : {TitleOnly}]

NoSingleEdit == [pc |-> "idle", req |-> <<>>, cfg |-> <<>>, target |-> 0, out |-> ""]

\* ----------------------------------------------------- requests and configs
NoCall == [req |-> <<>>, cfg |-> <<>>]
NoResp == [handled |-> FALSE, status |-> 0, body |-> <<>>]

\* An inline update of the title of record 1 sent as JSON ...
BaseReq ==
  [method |-> "POST", ctype |-> "json", bad |-> FALSE, edit |-> "1", inline |-> "ON",
   record_id |-> "+1", query_id |-> "", bind |-> " title", value |-> "B",
   file |-> "none", save |-> "ok"]

\* ... to an instance with inline editing on
BaseCfg ==
  [inline |-> TRUE, seed |-> FALSE, template |-> TitleAndBody,
   uploadDir |-> "up", contentType |-> "a"]

BindArgs == {" title", "body", " "}
RecordIdArgs == {"x", "+1", DecStr[MaxId]}
QueryIdArgs == {"", DecStr[1]}

\* How a request carries its value: as JSON, as a form, or as a multipart form
\* with or without a file part, the file named "file" or after the bind key
Carriers ==
  {[ctype |-> "json", file |-> "none", save |-> "ok"],
   [ctype |-> "form", file |-> "none", save |-> "ok"],
   [ctype |-> "multipart", file |-> "none", save |-> "ok"],
   [ctype |-> "multipart", file |-> "file", save |-> "ok"],
   [ctype |-> "multipart", file |-> "file", save |-> "fail"],
   [ctype |-> "multipart", file |-> "bind", save |-> "ok"]}

\* The calls the model makes: the request above varied in the inputs each step
\* of the handler looks at
Calls ==
  {[req |-> [BaseReq EXCEPT !.method = "GET"], cfg |-> BaseCfg],
   [req |-> [BaseReq EXCEPT !.bad = TRUE], cfg |-> BaseCfg]}
  \cup {[req |-> [BaseReq EXCEPT !.edit = e], cfg |-> [BaseCfg EXCEPT !.inline = on]] :
          e \in {"1", ""}, on \in BOOLEAN}
  \cup {[req |-> [BaseReq EXCEPT !.inline = "0", !.bind = b, !.record_id = i],
         cfg |-> BaseCfg] : b \in BindArgs, i \in RecordIdArgs}
  \cup {[req |-> [BaseReq EXCEPT !.bind = b],
         cfg |-> [BaseCfg EXCEPT !.template = tpl]] :
          b \in BindArgs, tpl \in Templates}
  \cup {[req |-> [BaseReq EXCEPT !.record_id = i, !.query_id = q], cfg |-> BaseCfg] :
          i \in RecordIdArgs, q \in QueryIdArgs}
  \cup {[req |-> [BaseReq EXCEPT !.record_id = i, !.bind = b, !.value = v,
                                 !.ctype = c.ctype, !.file = c.file, !.save = c.save],
         cfg |-> [BaseCfg EXCEPT !.seed = sd, !.template = tpl, !.uploadDir = dir,
                                 !.contentType = t]] :
          i \in RecordIdArgs \ {"x"}, b \in BindArgs \ {" "}, v \in Vals,
          c \in Carriers, sd \in BOOLEAN, tpl \in {TitleOnly, TitleAndBody}, dir \in {"", "up"},
          t \in Types}

\* ------------------------------------------------------------ the resolver
\* a resolver that leaves an empty view or action empty
resolveViewActionNoDefault(f) ==
  LET view == ToLower(TrimSpace(f.View))
      action == ToLower(TrimSpace(f.Action))
      mode == ToLower(TrimSpace(f.Mode))
      legacy == view = "" /\ action = "" /\ mode \in {"render", "cms", "edit"}
  IN [view |-> IF legacy THEN (IF mode = "edit" THEN "single" ELSE "list") ELSE view,
      action |-> IF legacy THEN (IF mode = "render" THEN "render" ELSE "edit") ELSE action]

\* a resolver that translates the legacy mode whenever one is given
resolveViewActionModeFirst(f) ==
  LET view == ToLower(TrimSpace(f.View))
      action == ToLower(TrimSpace(f.Action))
      mode == ToLower(TrimSpace(f.Mode))
      legacy == mode \in {"render", "cms", "edit"}
      v == IF legacy THEN (IF mode = "edit" THEN "single" ELSE "list") ELSE view
      a == IF legacy THEN (IF mode = "render" THEN "render" ELSE "edit") ELSE action
  IN [view |-> IF v = "" THEN "list" ELSE v, action |-> IF a = "" THEN "render" ELSE a]

resolveViewAction(f) ==
  LET view == ToLower(TrimSpace(f.View))
      action == ToLower(TrimSpace(f.Action))
      mode == ToLower(TrimSpace(f.Mode))
      legacy == view = "" /\ action = "" /\ mode \in {"render", "cms", "edit"}
      v == IF legacy THEN (IF mode = "edit" THEN "single" ELSE "list") ELSE view
      a == IF legacy THEN (IF mode = "render" THEN "render" ELSE "edit") ELSE action
  IN [view |-> IF v = "" THEN "list" ELSE v, action |-> IF a = "" THEN "render" ELSE a]

\* The switch of Render: the routine a view/action pair is dispatched to
dispatch(view, action) ==
  IF view = "list" /\ action = "edit" THEN "renderListEdit"
  ELSE IF view = "single" /\ action = "edit" THEN "renderSingleEdit"
  ELSE IF view = "list" /\ action = "render" THEN "renderListRender"
  ELSE IF view = "single" /\ action = "render" THEN "renderSingleRender"
  ELSE "unknown view/action"

\* The view, action and mode strings a configuration may carry
ViewArgs == {"", " ", " List", "single", "grid"}
ActionArgs == {"", " ", "Render", " edit", "delete"}
ModeArgs == {"", "render", " CMS ", "edit", "grid"}

\* The trees the tree functions are applied to: strings at the top level, a
\* map in a map, a list holding a string and a map, and the empty map
Flat == Map(("a" :> Str("x")) @@ ("c" :> Str("y")))
Nested == Map(("a" :> Map(("b" :> Str("x")))) @@ ("c" :> Str("y")))
Listed == Map(("a" :> List(<<Str("x"), Map(("b" :> Str("y")))>>)) @@ ("c" :> Str("y")))
Empty == Map(<<>>)
TreeArgs == {Flat, Nested, Listed, Empty}

\* The dotted paths a caller may pass
PathArgs == {"", "a", "z", "a.b", " a .b", "a..b", "a.", "a.z", "z.b", "c.b",
             "a.0", "a.+1", "a.1.b", "a.2", "a.-1", "a.x.b"}

\* The values a caller may store: a string, or the map NewNode
NewNode == Map(("k" :> Str("V")))
NewRoot == Ref(<<"V", <<>>>>)
ValueArgs == {Str("V"), NewRoot}

TreeRoot == Ref(<<"T", <<>>>>)

NoTreeCall ==
  [pc |-> "idle", heap |-> <<>>, orig |-> Str(""), path |-> "", value |-> Str(""),
   ok |-> FALSE, got |-> [ok |-> FALSE, val |-> Str("")], copy |-> Str(""), edits |-> 0]

NoDispatch == [pc |-> "idle", fields |-> <<>>, view |-> "", action |-> "", routine |-> ""]

\* ----------------------------------------------------------------- state
\* The operations that run a transaction
Mutations == {"create", "update", "updateField", "delete"}

TypeOK ==
  /\ records \subseteq [id : Ids, type : Types]
  /\ fields \subseteq [record_id : IdArgs, bind_key : Keys, value : Vals \cup {SavedPath}]
  /\ seq \in 0..MaxId
  /\ openTx \in 0..nops
  /\ nops \in 0..MaxOps
  /\ last.op \in {"none", "seed", "inline"} \cup Mutations
  /\ dbMu \in {0} \cup Procs
  /\ DOMAIN dbByPath \subseteq Stores
  /\ \A p \in Procs : proc[p].store \in Stores \cup {""}
  /\ rd.pc \in {"idle", "fields", "list", "done"}
  /\ call = NoCall \/ call.req.method \in {"GET", "POST"}
  /\ resp.status \in {0, 200, 400, 500}

Init ==
  /\ records = {}
  /\ fields = {}
  /\ seq = 0
  /\ openTx = 0
  /\ nops = 0
  /\ last = [op |-> "none", id |-> 0, err |-> "nil"]
  /\ dbMu = 0
  /\ dbByPath = <<>>
  /\ proc = [p \in Procs |-> [pc |-> "idle", store |-> "", db |-> "", err |-> "nil"]]
  /\ rd = [pc |-> "idle", id |-> 0, ids |-> <<>>, err |-> "nil", out |-> <<>>]
  /\ hist = {}
  /\ call = NoCall
  /\ resp = NoResp
  /\ se = NoSingleEdit
  /\ rn = NoRender
  /\ sw = [p \in Procs |-> NoSeedCall]
  /\ cb = NoWalk
  /\ nz = NoNormalize
  /\ bd = NoRequest
  /\ tp = NoTemplateCall
  /\ rv = NoDispatch
  /\ tr = NoTreeCall

\* A store function has returned r: its committed tables and what it returned.
Returned(op, r) ==
  /\ records' = r.records
  /\ fields' = r.fields
  /\ seq' = r.seq
  /\ openTx' = openTx + (IF r.open THEN 1 ELSE 0)
  /\ last' = [op |-> op, id |-> r.id, err |-> r.err]

Create(contentType, values) ==
  /\ nops < MaxOps
  /\ nops' = nops + 1
  /\ seq < MaxId
  /\ Returned("create", createRecord(records, fields, seq, contentType, values))

Update(recordID, contentType, values) ==
  /\ nops < MaxOps
  /\ nops' = nops + 1
  /\ Returned("update", updateRecord(records, fields, seq, recordID, contentType, values))

UpdateField(recordID, contentType, bindKey, value) ==
  /\ nops < MaxOps
  /\ nops' = nops + 1
  /\ Returned("updateField",
              updateRecordField(records, fields, seq, recordID, contentType, bindKey, value))

Delete(recordID, contentType) ==
  /\ nops < MaxOps
  /\ nops' = nops + 1
  /\ Returned("delete", deleteRecord(records, fields, seq, recordID, contentType))

Seed(contentType, defaults) ==
  /\ nops < MaxOps
  /\ nops' = nops + 1
  /\ seq < MaxId
  /\ Returned("seed", ensureSeed(records, fields, seq, defaults, contentType))

\* One call of a store function by a single caller.
StoreStep ==
  \/ \E t \in Types, v \in ValueMaps : Create(t, v)
  \/ \E i \in Ids, t \in Types, v \in ValueMaps : Update(i, t, v)
  \/ \E i \in IdArgs, t \in Types, k \in KeyArgs, v \in Vals : UpdateField(i, t, k, v)
  \/ \E i \in Ids, t \in Types : Delete(i, t)
  \/ \E t \in Types, d \in [Keys -> Vals] : Seed(t, d)

Next == StoreStep /\ UNCHANGED <<openVars, readVars, inlineVars, pureVars>>

Spec == Init /\ [][Next]_vars

\* ------------------------------------------------------ getDB, concurrently
\* a Once whose callers pass while f is still running
onceWaitsNever(entry) == FALSE

\* sync.Once.Do: the caller that finds the Once unused runs f ...
onceRuns(entry) == entry.once = "new"

\* ... and a caller that finds f running waits until it has returned.
onceWaits(entry) == entry.once = "running"

setProc(p, pc, db, err) ==
  proc' = [proc EXCEPT ![p] = [pc |-> pc, store |-> proc[p].store, db |-> db, err |-> err]]

\* getDB is called: a blank store path is refused before the registry is touched.
GetDB(p, store) ==
  /\ proc[p].pc = "idle"
  /\ proc' = [proc EXCEPT ![p] =
       IF TrimSpace(store) = ""
         THEN [pc |-> "done", store |-> store, db |-> "", err |-> "store is required"]
         ELSE [pc |-> "lock", store |-> store, db |-> "", err |-> "nil"]]
  /\ UNCHANGED <<dbMu, dbByPath>>

\* dbMu.Lock()
Lock(p) ==
  /\ proc[p].pc = "lock"
  /\ dbMu = 0
  /\ dbMu' = p
  /\ setProc(p, "locked", "", "nil")
  /\ UNCHANGED dbByPath

\* look the path up, open and register a handle when it has none; dbMu.Unlock()
Lookup(p) ==
  /\ proc[p].pc = "locked"
  /\ dbMu = p
  /\ dbByPath' =
       IF proc[p].store \in DOMAIN dbByPath
         THEN dbByPath
         ELSE [q \in DOMAIN dbByPath \cup {proc[p].store} |->
                 IF q \in DOMAIN dbByPath THEN dbByPath[q]
                 ELSE [once |-> "new", stmts |-> 0, initErr |-> FALSE, runs |-> 0]]
  /\ dbMu' = 0
  /\ setProc(p, "ping", "", "nil")

\* entry.db.Ping()
Ping(p, ok) ==
  /\ proc[p].pc = "ping"
  /\ IF ok THEN setProc(p, "once", "", "nil") ELSE setProc(p, "done", "", "ping failed")
  /\ UNCHANGED <<dbMu, dbByPath>>

\* entry.once.Do(...) is entered: run initSchema, wait for it, or pass
OnceDo(p) ==
  LET entry == dbByPath[proc[p].store] IN
  /\ proc[p].pc = "once"
  /\ ~onceWaits(entry)
  /\ IF onceRuns(entry)
       THEN /\ dbByPath' = [dbByPath EXCEPT ![proc[p].store] =
                              [entry EXCEPT !.once = "running", !.runs = @ + 1]]
            /\ setProc(p, "init", "", "nil")
       ELSE /\ setProc(p, "return", "", "nil")
            /\ UNCHANGED dbByPath
  /\ UNCHANGED dbMu

\* initSchema executes its next statement; the first failure ends it
InitStmt(p, ok) ==
  LET entry == dbByPath[proc[p].store] IN
  /\ proc[p].pc = "init"
  /\ IF ~ok
       THEN /\ dbByPath' = [dbByPath EXCEPT ![proc[p].store] =
                              [entry EXCEPT !.initErr = TRUE, !.once = "done"]]
            /\ setProc(p, "return", "", "nil")
     ELSE IF entry.stmts + 1 = NumStmts
       THEN /\ dbByPath' = [dbByPath EXCEPT ![proc[p].store] =
                              [entry EXCEPT !.stmts = NumStmts, !.once = "done"]]
            /\ setProc(p, "return", "", "nil")
       ELSE /\ dbByPath' = [dbByPath EXCEPT ![proc[p].store] =
                              [entry EXCEPT !.stmts = @ + 1]]
            /\ UNCHANGED proc
  /\ UNCHANGED dbMu

\* return entry.db, entry.initErr
ReturnDB(p) ==
  /\ proc[p].pc = "return"
  /\ setProc(p, "done", proc[p].store,
             IF dbByPath[proc[p].store].initErr THEN "init failed" ELSE "nil")
  /\ UNCHANGED <<dbMu, dbByPath>>

\* the worker's next request calls getDB again
Again(p) ==
  /\ proc[p].pc = "done"
  /\ proc' = [proc EXCEPT ![p] = [pc |-> "idle", store |-> "", db |-> "", err |-> "nil"]]
  /\ UNCHANGED <<dbMu, dbByPath>>

NextOpen ==
  /\ \E p \in Procs :
       \/ \E s \in Stores : GetDB(p, s)
       \/ Lock(p)
       \/ Lookup(p)
       \/ \E ok \in BOOLEAN : Ping(p, ok)
       \/ OnceDo(p)
       \/ \E ok \in BOOLEAN : InitStmt(p, ok)
       \/ ReturnDB(p)
       \/ Again(p)
  /\ UNCHANGED <<storeVars, readVars, inlineVars, pureVars>>

SpecOpen == Init /\ [][NextOpen]_vars

\* --------------------------------------------- a reader beside the writers
\* The ids of a set of record rows in ascending order (ORDER BY id)
idsInOrder(rows) ==
  LET S == {r.id : r \in rows}
  IN [k \in 1..Cardinality(S) |->
        CHOOSE i \in S : Cardinality({j \in S : j < i}) = k - 1]

\* SELECT id FROM records [WHERE type = ?] ORDER BY id
fetchRecordIDs(recs, contentType) ==
  IF TrimSpace(contentType) = ""
    THEN idsInOrder(recs)
    ELSE idsInOrder({r \in recs : r.type = contentType})

\* What the committed store holds: each record with its field map
Snapshot(recs, flds) ==
  {[id |-> r.id, fields |-> fetchRecordFields(flds, r.id)] : r \in recs}

\* A writer commits one store call.
Write ==
  /\ StoreStep
  /\ hist' = hist \cup Snapshot(records', fields')
  /\ UNCHANGED <<openVars, rd, inlineVars, pureVars>>

\* fetchRecordByID, first query: SELECT id FROM records WHERE id = ? [AND type = ?]
ReadByID(recordID, contentType) ==
  /\ rd.pc = "idle"
  /\ rd' = IF recordID = 0
             THEN [rd EXCEPT !.pc = "done", !.err = "record id is required"]
           ELSE IF touchedRows(records, recordID, contentType) = {}
             THEN [rd EXCEPT !.pc = "done", !.err = "no rows"]
           ELSE [rd EXCEPT !.pc = "fields", !.id = recordID]
  /\ UNCHANGED <<storeVars, openVars, hist, inlineVars, pureVars>>

\* fetchRecordByID, second query: fetchRecordFields(db, id)
ReadFields ==
  /\ rd.pc = "fields"
  /\ rd' = [rd EXCEPT !.pc = "done",
                      !.out = <<[id |-> rd.id, fields |-> fetchRecordFields(fields, rd.id)]>>]
  /\ UNCHANGED <<storeVars, openVars, hist, inlineVars, pureVars>>

\* fetchRecords, first query: fetchRecordIDs
ReadList(contentType) ==
  /\ rd.pc = "idle"
  /\ LET ids == fetchRecordIDs(records, contentType)
     IN rd' = [rd EXCEPT !.pc = IF ids = <<>> THEN "done" ELSE "list", !.ids = ids]
  /\ UNCHANGED <<storeVars, openVars, hist, inlineVars, pureVars>>

\* fetchRecords, one turn of its loop: fetchRecordFields(db, id) of the next id
ReadListFields ==
  /\ rd.pc = "list"
  /\ rd' = [rd EXCEPT
              !.pc = IF Len(rd.ids) = 1 THEN "done" ELSE "list",
              !.ids = Tail(rd.ids),
              !.out = Append(rd.out, [id |-> Head(rd.ids),
                                      fields |-> fetchRecordFields(fields, Head(rd.ids))])]
  /\ UNCHANGED <<storeVars, openVars, hist, inlineVars, pureVars>>

NextRead ==
  \/ Write
  \/ \E i \in IdArgs, t \in Types : ReadByID(i, t)
  \/ ReadFields
  \/ \E t \in Types : ReadList(t)
  \/ ReadListFields

SpecRead == Init /\ [][NextRead]_vars

\* ------------------------------------------------- Render with inline edits
\* A render-mode Render call arrives and is answered up to the handler.
RenderInline(c) ==
  /\ call = NoCall
  /\ nops < MaxOps
  /\ nops' = nops + 1
  /\ seq < MaxId
  /\ \E out \in {renderInline(records, fields, seq, c.req, c.cfg)} :
       /\ records' = out.r.records
       /\ fields' = out.r.fields
       /\ seq' = out.r.seq
       /\ openTx' = openTx + (IF out.r.open THEN 1 ELSE 0)
       /\ last' = [op |-> "inline", id |-> out.r.id, err |-> out.r.err]
       /\ resp' = [handled |-> out.handled, status |-> out.status, body |-> out.body]
  /\ call' = c
  /\ UNCHANGED <<openVars, readVars, pureVars>>

\* The call returns; its request and response are gone.
ReturnInline ==
  /\ call # NoCall
  /\ call' = NoCall
  /\ resp' = NoResp
  /\ UNCHANGED <<storeVars, openVars, readVars, pureVars>>

NextInline ==
  \/ \E c \in Calls : RenderInline(c)
  \/ ReturnInline

SpecInline == Init /\ [][NextInline]_vars

\* ---------------------------------------------------------- Render's dispatch
\* Render decodes a configuration and resolves its view and action.
Resolve(f) ==
  /\ rv.pc = "idle"
  /\ \E r \in {resolveViewAction(f)} :
       rv' = [pc |-> "resolved", fields |-> f, view |-> r.view, action |-> r.action,
              routine |-> ""]
  /\ UNCHANGED <<storeVars, openVars, readVars, inlineVars, tr, tp, moreVars>>

\* Render's switch picks the routine.
Dispatch ==
  /\ rv.pc = "resolved"
  /\ rv' = [rv EXCEPT !.pc = "done", !.routine = dispatch(rv.view, rv.action)]
  /\ UNCHANGED <<storeVars, openVars, readVars, inlineVars, tr, tp, moreVars>>

NextResolve ==
  \/ \E f \in [View : ViewArgs, Action : ActionArgs, Mode : ModeArgs] : Resolve(f)
  \/ Dispatch

SpecResolve == Init /\ [][NextResolve]_vars

\* --------------------------------------------- Render in single+edit mode
\* A Render call in single+edit mode, from its entry to its return value
RenderSingleEdit(req, cfg) ==
  /\ se.pc = "idle"
  /\ nops < MaxOps
  /\ nops' = nops + 1
  /\ \E res \in {renderSingleEdit(records, fields, seq, req, cfg)} :
       /\ res.r.seq <= MaxId
       /\ records' = res.r.records
       /\ fields' = res.r.fields
       /\ seq' = res.r.seq
       /\ openTx' = openTx + (IF res.r.open THEN 1 ELSE 0)
       /\ se' = [pc |-> "done", req |-> req, cfg |-> cfg, target |-> res.target,
                 out |-> res.out]
  /\ UNCHANGED <<last, openVars, readVars, inlineVars, rv, tr, tp, bd, nz, cb, sw, rn>>

\* The call has returned.
ReturnSingleEdit ==
  /\ se.pc = "done"
  /\ se' = NoSingleEdit
  /\ UNCHANGED <<storeVars, openVars, readVars, inlineVars, rv, tr, tp, bd, nz, cb, sw, rn>>

NextSingleEdit ==
  \/ \E req \in EditReqs, cfg \in EditCfgs : RenderSingleEdit(req, cfg)
  \/ ReturnSingleEdit

SpecSingleEdit == Init /\ [][NextSingleEdit]_vars

\* ------------------------------------------- Render calls that seed a store
\* Worker p enters Render with seed on: loadTemplateAndDB has the template, the
\* binds and the store, and calls ensureSeed.
SeedCall(p, contentType, default) ==
  /\ sw[p].pc = "idle"
  /\ sw' = [sw EXCEPT ![p] = [pc |-> "called", type |-> contentType,
                              default |-> default, count |-> 0]]
  /\ UNCHANGED <<storeVars, openVars, readVars, inlineVars, rv, tr, tp, bd, nz, cb, se, rn>>

\* ensureSeed: count, err := countRecords(db, contentType)
SeedCount(p) ==
  /\ sw[p].pc = "called"
  /\ sw' = [sw EXCEPT ![p].pc = "counted", ![p].count = countRecords(records, sw[p].type)]
  /\ UNCHANGED <<storeVars, openVars, readVars, inlineVars, rv, tr, tp, bd, nz, cb, se, rn>>

\* ensureSeed: if count > 0 { return nil }
SeedSkip(p) ==
  /\ sw[p].pc = "counted"
  /\ sw[p].count > 0
  /\ sw' = [sw EXCEPT ![p].pc = "done"]
  /\ UNCHANGED <<storeVars, openVars, readVars, inlineVars, rv, tr, tp, bd, nz, cb, se, rn>>

\* ensureSeed: createRecordFromTemplate(db, contentType, template, binds)
SeedCreate(p) ==
  /\ sw[p].pc = "counted"
  /\ sw[p].count = 0
  /\ seq < MaxId
  /\ \E r \in {createRecord(records, fields, seq, sw[p].type, [title |-> sw[p].default])} :
       /\ records' = r.records
       /\ fields' = r.fields
       /\ seq' = r.seq
       /\ openTx' = openTx + (IF r.open THEN 1 ELSE 0)
  /\ sw' = [sw EXCEPT ![p].pc = "done"]
  /\ UNCHANGED <<nops, last, openVars, readVars, inlineVars, rv, tr, tp, bd, nz, cb, se, rn>>

NextSeed ==
  \E p \in Procs :
    \/ \E t \in Types, v \in Vals : SeedCall(p, t, v)
    \/ SeedCount(p)
    \/ SeedSkip(p)
    \/ SeedCreate(p)

SpecSeed == Init /\ [][NextSeed]_vars

\* ------------------------------------------------- the walk of collectBinds
\* loadTemplateAndDB: binds := map[string]bindTarget{}; collectBinds(template, "", binds)
StartWalk(t) ==
  /\ cb.pc = "idle"
  /\ cb' = [cb EXCEPT !.pc = "walking", !.template = t,
                      !.stack = <<[node |-> t, path |-> <<>>]>>]
  /\ UNCHANGED <<storeVars, openVars, readVars, inlineVars, rv, tr, tp, bd, nz, sw, se, rn>>

\* One call of collectBinds: the node's own @bind is registered unless the
\* field has a path already; below a node that is no boundary the map children
\* are visited in the order the range over the map yields them.
VisitNode ==
  /\ cb.pc = "walking"
  /\ cb.stack # <<>>
  /\ LET f == Head(cb.stack).node.m
         path == Head(cb.stack).path
         own == ownBind(f, path)
         children == IF isBoundaryPlugin(f) THEN {}
                     ELSE {k \in DOMAIN f : ~HasAtPrefix(k) /\ IsMap(f[k])}
     IN \E order \in Orders(children) :
          cb' = [cb EXCEPT
                   !.binds = IF own = {} THEN @ ELSE register(@, CHOOSE b \in own : TRUE),
                   !.visited = IF own = {} THEN @ ELSE Append(@, CHOOSE b \in own : TRUE),
                   !.stack = [i \in DOMAIN order |->
                                [node |-> f[order[i]], path |-> Append(path, order[i])]]
                             \o Tail(@)]
  /\ UNCHANGED <<storeVars, openVars, readVars, inlineVars, rv, tr, tp, bd, nz, sw, se, rn>>

\* collectBinds returns to loadTemplateAndDB
EndWalk ==
  /\ cb.pc = "walking"
  /\ cb.stack = <<>>
  /\ cb' = [cb EXCEPT !.pc = "done"]
  /\ UNCHANGED <<storeVars, openVars, readVars, inlineVars, rv, tr, tp, bd, nz, sw, se, rn>>

NextCollect ==
  \/ \E t \in TemplateArgs \cup Duplicates : StartWalk(t)
  \/ VisitNode
  \/ EndWalk

SpecCollect == Init /\ [][NextCollect]_vars

\* ------------------------------------------- normalization of a template
\* loadTemplateAndDB: template, ok := normalizeToStringMap(templateValue)
Normalize(t) ==
  /\ nz.pc = "idle"
  /\ \E res \in {normalizeToStringMap(t)} :
       nz' = [nz EXCEPT !.pc = "normalized", !.input = t, !.ok = res.ok, !.out = res.node]
  /\ UNCHANGED <<storeVars, openVars, readVars, inlineVars, rv, tr, tp, bd, cb, sw, se, rn>>

\* The result is normalized once more.
NormalizeAgain ==
  /\ nz.pc = "normalized"
  /\ nz.ok
  /\ nz' = [nz EXCEPT !.pc = "again", !.again = normalizeToStringMap(nz.out).node]
  /\ UNCHANGED <<storeVars, openVars, readVars, inlineVars, rv, tr, tp, bd, cb, sw, se, rn>>

NextNormalize ==
  \/ \E t \in TemplateValues : Normalize(t)
  \/ NormalizeAgain

SpecNormalize == Init /\ [][NextNormalize]_vars

\* ------------------------------------------- decodes of one request body
\* A POST with a JSON content type reaches the outermost instance.
Arrive(body) ==
  /\ bd.pc = "idle"
  /\ bd' = [bd EXCEPT !.pc = "arrived", !.sent = body, !.body = body]
  /\ UNCHANGED <<storeVars, openVars, readVars, inlineVars, rv, tr, tp, nz, cb, sw, se, rn>>

\* An instance, the outer one or a nested one, decodes the request.
DecodeInlineJSON ==
  /\ bd.pc = "arrived"
  /\ Len(bd.results) < MaxDecodes
  /\ \E out \in {decodeInlineJSON(bd.body)} :
       bd' = [bd EXCEPT !.body = out.body,
                        !.results = Append(@, [err |-> out.err, payload |-> out.payload])]
  /\ UNCHANGED <<storeVars, openVars, readVars, inlineVars, rv, tr, tp, nz, cb, sw, se, rn>>

\* io.ReadAll fails on the body as the connection delivers it: the bytes read
\* so far are gone, the body is not restored, and the handler answers 400.
ReadFails ==
  /\ bd.pc = "arrived"
  /\ bd.results = <<>>
  /\ ~bd.body.nil
  /\ \E n \in 0..Len(bd.body.data) :
       bd' = [bd EXCEPT !.pc = "failed", !.body.off = n,
                        !.results = <<[err |-> "read", payload |-> <<>>]>>]
  /\ UNCHANGED <<storeVars, openVars, readVars, inlineVars, rv, tr, tp, nz, cb, sw, se, rn>>

NextBody ==
  \/ \E body \in Bodies : Arrive(body)
  \/ DecodeInlineJSON
  \/ ReadFails

SpecBody == Init /\ [][NextBody]_vars

\* ------------------------------------------- Render's materialization
\* A Render call from the template and the records it has fetched to the tree
\* it returns; the template is allocated as the configuration holds it
Materialize(template, recs, cfg, order) ==
  /\ rn.pc = "idle"
  /\ \E heap \in {allocIn("T", template)}, binds \in {bindIndex(template)} :
       \E res \in {materialize(heap, TemplateRoot, binds, recs, cfg, order)} :
         rn' = [pc |-> "done", template |-> template, cfg |-> cfg, records |-> recs,
                order |-> order, heap |-> res.heap, out |-> res.out]
  /\ UNCHANGED <<storeVars, openVars, readVars, inlineVars, rv, tr, tp, bd, nz, cb, sw, se>>

\* The call has returned.
ReturnTree ==
  /\ rn.pc = "done"
  /\ rn' = NoRender
  /\ UNCHANGED <<storeVars, openVars, readVars, inlineVars, rv, tr, tp, bd, nz, cb, sw, se>>

NextRender ==
  \/ \E template \in RenderTemplates, recs \in RecordLists, cfg \in RenderCfgs,
        order \in KeyOrders : Materialize(template, recs, cfg, order)
  \/ ReturnTree

SpecRender == Init /\ [][NextRender]_vars

\* -------------------------------------------------- the template functions
\* loadTemplateAndDB: collectBinds(template, "", binds)
CollectBinds(t) ==
  /\ tp.pc = "idle"
  /\ tp' = [tp EXCEPT !.pc = "binds", !.template = t, !.binds = collectBinds(t.m, <<>>)]
  /\ UNCHANGED <<storeVars, openVars, readVars, inlineVars, rv, tr, moreVars>>

\* filterTemplateByFlag(template, "@teaser")
FilterTemplate(t) ==
  /\ tp.pc = "idle"
  /\ tp' = [tp EXCEPT !.pc = "filtered", !.template = t,
                      !.filtered = filterTemplateByFlag(t, "@teaser")]
  /\ UNCHANGED <<storeVars, openVars, readVars, inlineVars, rv, tr, moreVars>>

\* template = applyTeaserFilter(template, fields), before the template is rendered
ApplyTeaserFilter(t, teaser) ==
  /\ tp.pc = "idle"
  /\ tp' = [tp EXCEPT !.pc = "applied", !.template = t, !.teaser = teaser,
                      !.out = applyTeaserFilter(t, [Teaser |-> teaser])]
  /\ UNCHANGED <<storeVars, openVars, readVars, inlineVars, rv, tr, moreVars>>

NextTemplate ==
  \/ \E t \in TemplateArgs : CollectBinds(t)
  \/ \E t \in TemplateArgs : FilterTemplate(t)
  \/ \E t \in TemplateArgs, teaser \in BOOLEAN : ApplyTeaserFilter(t, teaser)

SpecTemplate == Init /\ [][NextTemplate]_vars

\* ----------------------------------------------------- the tree functions
\* A caller holds a tree and a value.
Load(t) ==
  /\ tr.pc = "idle"
  /\ tr' = [tr EXCEPT !.pc = "loaded", !.orig = t,
                      !.heap = allocIn("T", t) @@ allocIn("V", NewNode)]
  /\ UNCHANGED <<storeVars, openVars, readVars, inlineVars, rv, tp, moreVars>>

\* setAtPath(root, path, value)
SetAtPath(p, v) ==
  /\ tr.pc = "loaded"
  /\ \E out \in {setAtPath(tr.heap, TreeRoot, p, v)} :
       tr' = [tr EXCEPT !.pc = "set", !.path = p, !.value = v, !.ok = out.ok,
                        !.heap = out.heap]
  /\ UNCHANGED <<storeVars, openVars, readVars, inlineVars, rv, tp, moreVars>>

\* getAtPath(root, path), after setAtPath with the same path
GetAfterSet ==
  /\ tr.pc = "set"
  /\ tr' = [tr EXCEPT !.pc = "got", !.got = getAtPath(tr.heap, TreeRoot, tr.path)]
  /\ UNCHANGED <<storeVars, openVars, readVars, inlineVars, rv, tp, moreVars>>

\* getAtPath(root, path) on the tree as it was loaded
GetAtPath(p) ==
  /\ tr.pc = "loaded"
  /\ tr' = [tr EXCEPT !.pc = "read", !.path = p, !.got = getAtPath(tr.heap, TreeRoot, p)]
  /\ UNCHANGED <<storeVars, openVars, readVars, inlineVars, rv, tp, moreVars>>

\* instance := deepCopy(template)
DeepCopy ==
  /\ tr.pc = "loaded"
  /\ \E out \in {deepCopy(tr.heap, TreeRoot, "C")} :
       tr' = [tr EXCEPT !.pc = "copied", !.copy = out.slot, !.heap = out.heap]
  /\ UNCHANGED <<storeVars, openVars, readVars, inlineVars, rv, tp, moreVars>>

\* setAtPath(instance, path, value): a string is stored in the copy
EditCopy(p) ==
  /\ tr.pc = "copied"
  /\ tr.edits < MaxEdits
  /\ \E out \in {setAtPath(tr.heap, tr.copy, p, Str("V"))} :
       tr' = [tr EXCEPT !.edits = @ + 1, !.heap = out.heap]
  /\ UNCHANGED <<storeVars, openVars, readVars, inlineVars, rv, tp, moreVars>>

\* stripPluginMetaKeys(instance): delete(typed, key) on a map of the copy
DeleteFromCopy ==
  /\ tr.pc = "copied"
  /\ tr.edits < MaxEdits
  /\ \E a \in reachable(tr.heap, tr.copy) :
       /\ IsMap(tr.heap[a])
       /\ \E key \in DOMAIN tr.heap[a].m :
            tr' = [tr EXCEPT !.edits = @ + 1,
                             !.heap = [@ EXCEPT ![a] = Map(remove(@.m, key))]]
  /\ UNCHANGED <<storeVars, openVars, readVars, inlineVars, rv, tp, moreVars>>

NextTree ==
  \/ \E t \in TreeArgs : Load(t)
  \/ \E p \in PathArgs, v \in ValueArgs : SetAtPath(p, v)
  \/ GetAfterSet
  \/ \E p \in PathArgs : GetAtPath(p)
  \/ DeepCopy
  \/ \E p \in PathArgs : EditCopy(p)
  \/ DeleteFromCopy

SpecTree == Init /\ [][NextTree]_vars

\* ------------------------------------------------------------ properties
\* The rows of record_fields other than the row of (recordID, bindKey)
otherRows(flds, recordID, bindKey) ==
  {f \in flds : ~(f.record_id = recordID /\ f.bind_key = bindKey)}

\* C1: create(type, values) followed by fetchByID(returned id, type) returns a
\* record whose field map is exactly values.
C1_CreateThenFetch ==
  [][last'.op = "create" =>
     \A t \in Types, v \in ValueMaps :
       (Create(t, v) /\ last'.err = "nil") =>
         fetchRecordByID(records', fields', last'.id, t)
           = [err |-> "nil", id |-> last'.id, fields |-> v]]_vars

C3_ErrorRollsBack ==
  [][(last'.op \in Mutations /\ nops' = nops + 1 /\ last'.err # "nil") =>
       /\ records' = records /\ fields' = fields /\ seq' = seq
       /\ openTx' = openTx]_vars

\* C4: update and delete that target an id with no record, or a record whose
\* type differs from the given non-empty type, return an error.
C4_MissingTargetIsError ==
  [][last'.op \in {"update", "delete"} =>
     \A i \in {last'.id}, t \in Types :
       touchedRows(records, i, t) = {} =>
         /\ \A v \in ValueMaps : Update(i, t, v) => last'.err # "nil"
         /\ Delete(i, t) => last'.err # "nil"]_vars

C7_SchemaOnce ==
  /\ \A s \in DOMAIN dbByPath : dbByPath[s].runs <= 1
  /\ \A p \in Procs :
       (proc[p].pc = "done" /\ proc[p].db # "") =>
         /\ dbByPath[proc[p].db].runs = 1
         /\ dbByPath[proc[p].db].once = "done"

\* C7 witness: two workers hold the handle of the same path, its schema complete.
C7_Witness ==
  \E p, q \in Procs :
    /\ p # q
    /\ proc[p].pc = "done" /\ proc[q].pc = "done"
    /\ proc[p].db # "" /\ proc[p].db = proc[q].db
    /\ proc[p].err = "nil" /\ proc[q].err = "nil"
    /\ dbByPath[proc[p].db].stmts = NumStmts

\* C8: a fetch that returns without error returns, for each record, a field map
\* that the record held in some committed state of the store.
C8_NoTornRead ==
  (rd.pc = "done" /\ rd.err = "nil") =>
    \A k \in 1..Len(rd.out) : rd.out[k] \in hist

\* C9: seedIfEmpty creates exactly one record, holding the template's values,
\* when the type has no record, and changes nothing when it has one.
C9_SeedIfEmpty ==
  [][last'.op = "seed" =>
     \A t \in Types, d \in [Keys -> Vals] :
       Seed(t, d) =>
         IF countRecords(records, t) = 0
           THEN /\ records' = records \cup {[id |-> seq + 1, type |-> t]}
                /\ fetchRecordByID(records', fields', seq + 1, t)
                     = [err |-> "nil", id |-> seq + 1, fields |-> d]
           ELSE records' = records /\ fields' = fields]_vars

\* The record id an inline request names: the payload's, else the query's
namedRecordID(req) ==
  IF parseRecordID(TrimSpace(req.record_id)) = 0
    THEN parseRecordID(req.query_id)
    ELSE parseRecordID(TrimSpace(req.record_id))

\* An inline-edit POST has reached the handler with a truthy inline flag, a bind
\* key of the instance's Bind Index and the id of a record of the instance's
\* type. (No call of this specification deletes a record or changes its type,
\* so the record is there after the call exactly if it was there for the handler.)
InlineEditOfRecord ==
  /\ call # NoCall
  /\ call.req.method = "POST"
  /\ inlineMode(call.cfg, call.req)
  /\ parseInlinePayload(call.req).err = "nil"
  /\ parseBoolFlag(call.req.inline)
  /\ TrimSpace(call.req.bind) \in bindKeys(call.cfg.template)
  /\ touchedRows(records, namedRecordID(call.req), call.cfg.contentType) # {}

\* The call was answered 200 with the ok body carrying value v, and the record
\* now holds v under the bind key.
InlineAnsweredOk(v) ==
  LET id == namedRecordID(call.req)
      k == TrimSpace(call.req.bind)
      got == fetchRecordByID(records, fields, id, call.cfg.contentType)
  IN /\ resp.handled
     /\ resp.status = 200
     /\ resp.body = [status |-> "ok", record_id |-> DecStr[id], bind |-> k, value |-> v]
     /\ got.err = "nil"
     /\ k \in DOMAIN got.fields
     /\ got.fields[k] = v

InlineAnsweredError(msg) ==
  resp.handled /\ resp.status = 400 /\ resp.body = [error |-> msg]

norm(s) == ToLower(TrimSpace(s))

\* C14 as stated: whatever the configuration, the resolved view is list or
\* single, the action render or edit, and Render reaches one of its four routines.
C14_AsStated ==
  rv.pc = "done" =>
    /\ rv.view \in {"list", "single"}
    /\ rv.action \in {"render", "edit"}
    /\ rv.routine # "unknown view/action"

\* C14, corrected: when the configured view is empty, list or single and the
\* configured action is empty, render or edit (trimmed, any case), the resolved
\* pair is in {list, single} x {render, edit} and Render reaches one of its four
\* routines; any other view or action is handed on as it is (trimmed and
\* lower-cased) and Render ends in the unknown view/action outcome.
C14_FourModes ==
  rv.pc = "done" =>
    LET v == norm(rv.fields.View)
        a == norm(rv.fields.Action)
    IN IF v \in {"", "list", "single"} /\ a \in {"", "render", "edit"}
         THEN /\ rv.view \in {"list", "single"}
              /\ rv.action \in {"render", "edit"}
              /\ rv.routine \in {"renderListEdit", "renderSingleEdit",
                                 "renderListRender", "renderSingleRender"}
         ELSE /\ v \notin {"", "list", "single"} => rv.view = v
              /\ a \notin {"", "render", "edit"} => rv.action = a
              /\ rv.routine = "unknown view/action"

\* C14 witness: a configuration without view, action and mode was dispatched to
\* the list renderer.
C14_Witness ==
  /\ rv.pc = "done"
  /\ rv.fields = [View |-> " ", Action |-> "", Mode |-> ""]
  /\ rv.routine = "renderListRender"

\* C15: the legacy mode is translated (render: list/render, cms: list/edit,
\* edit: single/edit) exactly when view and action are both empty after
\* trimming; otherwise mode is ignored and an empty view becomes list, an empty
\* action render; all comparisons are on the trimmed, lower-cased strings.
C15_LegacyMode ==
  rv.pc \in {"resolved", "done"} =>
    LET v == norm(rv.fields.View)
        a == norm(rv.fields.Action)
        m == norm(rv.fields.Mode)
    IN IF v = "" /\ a = ""
         THEN <<rv.view, rv.action>> =
                CASE m = "render" -> <<"list", "render">>
                  [] m = "cms" -> <<"list", "edit">>
                  [] m = "edit" -> <<"single", "edit">>
                  [] OTHER -> <<"list", "render">>
         ELSE /\ rv.view = (IF v = "" THEN "list" ELSE v)
              /\ rv.action = (IF a = "" THEN "render" ELSE a)

\* C15 witness: mode " CMS " with a blank view and no action resolved to list/edit.
C15_Witness ==
  /\ rv.pc = "done"
  /\ rv.fields = [View |-> " ", Action |-> "", Mode |-> " CMS "]
  /\ rv.view = "list" /\ rv.action = "edit"

\* The strings an inline flag is true for, compared trimmed and lower-cased
TruthyWords == {"1", "true", "yes", "on", "y"}

\* Every node of a tree: the tree, the values of its keys that are no attribute
\* keys (no leading @), the items of its lists, and so on down
RECURSIVE Subtrees(_)
Subtrees(node) ==
  {node} \cup
    IF IsMap(node)
      THEN UNION {Subtrees(node.m[key]) : key \in {k \in DOMAIN node.m : ~HasAtPrefix(k)}}
    ELSE IF IsList(node) THEN UNION {Subtrees(node.l[i]) : i \in DOMAIN node.l}
    ELSE {}

ContainsBoundary(template) ==
  \E n \in Subtrees(template) : IsMap(n) /\ isBoundaryPlugin(n.m)

\* A Render call c is being answered in this step.
Answering(c) == call = NoCall /\ call' = c /\ c # NoCall

\* The store as the handler of this step's call finds it, as <<records, fields>>
StoreAtEntry ==
  LET at == loadTemplateAndDB(records, fields, seq, call'.cfg)
  IN <<at.records, at.fields>>

\* The call c reaches the handler as a POST with a payload whose inline flag is true.
InlinePost(c) ==
  /\ c.cfg.inline /\ norm(c.req.edit) \in TruthyWords
  /\ c.req.method = "POST"
  /\ ~(c.req.ctype = "json" /\ c.req.bad)
  /\ norm(c.req.inline) \in TruthyWords

\* C11: an inline POST with a true inline flag and a non-empty bind key outside
\* the Bind Index is declined (not handled, nothing written) when the template
\* contains a boundary, and answered 400 otherwise; no field update is made.
C11_UnknownBind ==
  [][(/\ Answering(call')
      /\ InlinePost(call')
      /\ TrimSpace(call'.req.bind) # ""
      /\ TrimSpace(call'.req.bind) \notin bindKeys(call'.cfg.template))
     => /\ IF ContainsBoundary(call'.cfg.template)
             THEN resp' = [handled |-> FALSE, status |-> 0, body |-> <<>>]
             ELSE resp' = [handled |-> TRUE, status |-> 400,
                           body |-> [error |-> "unknown bind"]]
        /\ last'.id = 0
        /\ <<records', fields'>> = StoreAtEntry]_vars

\* C11 witness: a POST for body, bound only inside a nested instance that sits in
\* a list of the template, was declined.
C11_Witness ==
  /\ call # NoCall
  /\ call.req.method = "POST" /\ call.req.bind = "body" /\ call.req.inline = "ON"
  /\ call.cfg.template =
       Map(("h" :> Bound("title")) @@ ("items" :> List(<<Str("x"), NestedInstance(BodyOnly)>>)))
  /\ ~resp.handled /\ resp.status = 0

\* C12: a request that is no POST, or whose parsed payload has a false inline
\* flag, is declined whatever its bind key, record id and value: nothing is
\* written as a response, the store is as the handler found it, and the Render
\* call goes on (the handler's answer is not returned).
C12_Declines ==
  [][(/\ Answering(call')
      /\ \/ call'.req.method # "POST"
         \/ /\ ~(call'.req.ctype = "json" /\ call'.req.bad)
            /\ norm(call'.req.inline) \notin TruthyWords)
     => /\ resp' = [handled |-> FALSE, status |-> 0, body |-> <<>>]
        /\ last'.id = 0
        /\ <<records', fields'>> = StoreAtEntry]_vars

\* C12 witness: a POST with inline flag "0" naming the title of the existing
\* record 1 was declined.
C12_Witness ==
  /\ call # NoCall
  /\ call.req.method = "POST" /\ call.req.inline = "0"
  /\ call.req.bind = " title" /\ call.req.record_id = "+1"
  /\ touchedRows(records, 1, call.cfg.contentType) # {}
  /\ ~resp.handled

\* C13: when the handler answers 200 it has made one field update, which
\* succeeded: the store differs from the one it found in the one field row the
\* answer names. With any other outcome the store is as the handler found it.
C13_OneUpdate ==
  [][(Answering(call') /\ inlineMode(call'.cfg, call'.req))
     => IF resp'.status = 200
          THEN /\ last'.id # 0 /\ last'.err = "nil"
               /\ resp'.body.record_id = DecStr[last'.id]
               /\ records' = StoreAtEntry[1]
               /\ fields' =
                    otherRows(StoreAtEntry[2], last'.id, resp'.body.bind)
                      \cup {[record_id |-> last'.id, bind_key |-> resp'.body.bind,
                             value |-> resp'.body.value]}
          ELSE <<records', fields'>> = StoreAtEntry]_vars

\* C13 witness: the handler answered 200 to a call that did not seed; the record
\* holds the new title B beside its body.
C13_Witness ==
  /\ call # NoCall
  /\ ~call.cfg.seed
  /\ resp.handled /\ resp.status = 200
  /\ last.id # 0 /\ last.err = "nil"
  /\ [record_id |-> last.id, bind_key |-> "title", value |-> "B"] \in fields
  /\ \E f \in fields : f.record_id = last.id /\ f.bind_key = "body"

\* The segments of a path that are not blank, trimmed
segments(path) ==
  LET kept(part) == TrimSpace(part) # ""
      parts == SelectSeq(Split(path), kept)
  IN [i \in DOMAIN parts |-> TrimSpace(parts[i])]

\* The node of a tree that a sequence of segments leads to, if there is one
RECURSIVE walk(_, _)
walk(node, segs) ==
  IF segs = <<>> THEN [ok |-> TRUE, node |-> node]
  ELSE IF IsMap(node)
    THEN IF Head(segs) \in DOMAIN node.m THEN walk(node.m[Head(segs)], Tail(segs))
         ELSE [ok |-> FALSE, node |-> node]
  ELSE IF IsList(node)
    THEN IF Head(segs) \in {"0", "1", "2", "+1"} /\ Numerals[Head(segs)] < Len(node.l)
           THEN walk(node.l[Numerals[Head(segs)] + 1], Tail(segs))
         ELSE [ok |-> FALSE, node |-> node]
  ELSE [ok |-> FALSE, node |-> node]

\* The last segment of the path is not blank, the segments before it lead to a
\* map, or to a list of which the last segment is an index
settable(tree, path) ==
  LET segs == segments(path)
      raw == Split(path)
  IN /\ TrimSpace(raw[Len(raw)]) # ""
     /\ LET parent == walk(tree, SubSeq(segs, 1, Len(segs) - 1))
        IN /\ parent.ok
           /\ \/ IsMap(parent.node)
              \/ IsList(parent.node) /\ walk(parent.node, <<segs[Len(segs)]>>).ok

\* C16 as stated: for every tree, path and value, getAtPath after setAtPath
\* with the same path returns the value stored and found = true.
C16_AsStated ==
  tr.pc = "got" => tr.got = [ok |-> TRUE, val |-> tr.value]

\* C16: when the last segment of the path is not blank and the segments before
\* it lead to a map, or to a list of which the last segment is an index,
\* setAtPath succeeds and getAtPath with the same path returns the value stored
\* and found = true; for every other path setAtPath returns false.
C16_SetThenGet ==
  tr.pc = "got" =>
    IF settable(tr.orig, tr.path)
      THEN tr.ok /\ tr.got = [ok |-> TRUE, val |-> tr.value]
      ELSE ~tr.ok

C16_Witness ==
  /\ tr.pc = "got"
  /\ tr.orig = Listed
  /\ tr.path = "a.1.b"
  /\ tr.value = NewRoot
  /\ tr.got = [ok |-> TRUE, val |-> NewRoot]

\* C17 as stated: when a segment of the path, the last one included, names a
\* key the map does not have, an index out of range or not an integer, or is
\* applied to a string, getAtPath returns found = false, and setAtPath returns
\* false and leaves the tree as it was.
C17_AsStated ==
  /\ tr.pc = "read" /\ ~walk(tr.orig, segments(tr.path)).ok => ~tr.got.ok
  /\ tr.pc = "set" /\ ~walk(tr.orig, segments(tr.path)).ok =>
       ~tr.ok /\ treeOf(tr.heap, TreeRoot) = tr.orig

\* C18: the copy deepCopy returns is equal in structure to the tree, shares no
\* map and no list with it, and whatever is then stored in or deleted from the
\* copy, at any depth, the tree stays as it was.
C18_CopyIsApart ==
  tr.pc = "copied" =>
    /\ tr.edits = 0 => treeOf(tr.heap, tr.copy) = tr.orig
    /\ reachable(tr.heap, tr.copy) \cap reachable(tr.heap, TreeRoot) = {}
    /\ treeOf(tr.heap, TreeRoot) = tr.orig

C18_Witness ==
  /\ tr.pc = "copied"
  /\ tr.orig = Listed
  /\ tr.edits = MaxEdits
  /\ treeOf(tr.heap, tr.copy) = Map(("a" :> List(<<Str("V"), Map(<<>>)>>)) @@ ("c" :> Str("y")))

\* Every bind a tree declares, on any map of it, with whether the map lies
\* strictly inside a boundary
RECURSIVE declared(_, _)
declared(node, inside) ==
  IF IsMap(node)
    THEN {[field |-> b.field, inside |-> inside] : b \in ownBind(node.m, <<>>)} \cup
         UNION {declared(node.m[key], inside \/ isBoundaryPlugin(node.m)) :
                  key \in DOMAIN node.m}
  ELSE IF IsList(node)
    THEN UNION {declared(node.l[i], inside) : i \in DOMAIN node.l}
  ELSE {}

\* The fields a tree binds only strictly inside a boundary
boundInsideOnly(template) ==
  {d.field : d \in declared(template, FALSE)}
    \ {d.field : d \in {e \in declared(template, FALSE) : ~e.inside}}

\* C19: a field whose @bind appears only on nodes strictly inside a boundary
\* subtree is not a key of the Bind Index collected from the enclosing template.
C19_StopsAtBoundary ==
  tp.pc = "binds" =>
    \A field \in boundInsideOnly(tp.template) : field \notin {b.field : b \in tp.binds}

C19_Witness ==
  /\ tp.pc = "binds"
  /\ tp.template = Map(("h" :> Bound("title")) @@ ("sub" :> MarkedBoundary(BodyOnly)))
  /\ boundInsideOnly(tp.template) = {"body"}
  /\ {b.field : b \in tp.binds} = {"title"}

\* A @teaser value that counts as set: a string that is not blank, false or 0
truthy(node) == IsStr(node) /\ ToLower(TrimSpace(node.s)) \notin {"", "false", "0"}

\* Some map of the tree, at any depth and under any key, carries a truthy @teaser
RECURSIVE carriesTeaser(_)
carriesTeaser(node) ==
  IF IsMap(node)
    THEN \/ "@teaser" \in DOMAIN node.m /\ truthy(node.m["@teaser"])
         \/ \E key \in DOMAIN node.m : carriesTeaser(node.m[key])
  ELSE IF IsList(node) THEN \E i \in DOMAIN node.l : carriesTeaser(node.l[i])
  ELSE FALSE

\* C20: when no node of the template carries a truthy @teaser, the filter by
\* @teaser returns no match, and with teaser on the template that is rendered is
\* the unfiltered template, the same one as with teaser off.
C20_NoTeaserNoMatch ==
  /\ tp.pc = "filtered" /\ ~carriesTeaser(tp.template) => ~tp.filtered.ok
  /\ tp.pc = "applied" /\ ~carriesTeaser(tp.template) =>
       /\ tp.out = tp.template
       /\ tp.out = applyTeaserFilter(tp.template, [Teaser |-> FALSE])

C20_Witness ==
  /\ tp.pc = "applied"
  /\ tp.teaser
  /\ tp.template = Map(("h" :> Bound("title")) @@ ("p" :> Teased("False", Bound("body"))))
  /\ tp.out = tp.template

\* C21: once an instance has decoded the JSON body of a request, the body reads
\* again from its start and yields the bytes that were sent, and every decode
\* of the request, however many there are, obtains the same payload.
C21_BodyRestored ==
  bd.pc = "arrived" /\ bd.results # <<>> =>
    /\ bd.body = bd.sent
    /\ ReadAll(bd.body) = bd.sent.data
    /\ \A i \in DOMAIN bd.results : bd.results[i] = bd.results[1]

C21_Witness ==
  /\ bd.pc = "arrived"
  /\ Len(bd.results) = MaxDecodes
  /\ bd.sent.data = <<"{", "bind:title", "}">>
  /\ bd.results[MaxDecodes] = [err |-> "nil", payload |-> [bind |-> "title"]]

\* The tree in canonical form: every map string-keyed, with the keys and the
\* values of the tree
RECURSIVE canonical(_)
canonical(node) ==
  IF IsMap(node) THEN Map([key \in DOMAIN node.m |-> canonical(node.m[key])])
  ELSE IF IsIMap(node)
    THEN Map([key \in {Sprint(k) : k \in DOMAIN node.im} |->
                canonical(node.im[CHOOSE k \in DOMAIN node.im : Sprint(k) = key])])
  ELSE IF IsList(node) THEN List([i \in DOMAIN node.l |-> canonical(node.l[i])])
  ELSE node

\* C22 as stated: for every template whose root is a map, of either kind,
\* normalization succeeds and returns the tree with every map, at every depth,
\* in string-keyed form with the same keys and values; normalizing the result
\* again returns an equal tree.
C22_AsStated ==
  /\ nz.pc # "idle" /\ (IsMap(nz.input) \/ IsIMap(nz.input)) =>
       nz.ok /\ nz.out = canonical(nz.input)
  /\ nz.pc = "again" => nz.again = nz.out

\* The place in the walk of the first visited node that binds the field
firstVisit(field) ==
  CHOOSE i \in DOMAIN cb.visited :
    /\ cb.visited[i].field = field
    /\ \A j \in 1..(i - 1) : cb.visited[j].field # field

\* C23: at every point of the walk the Bind Index holds one path for each
\* field some visited node binds, the path of the first such node visited,
\* and no entry for any other field.
C23_FirstWins ==
  /\ DOMAIN cb.binds = {cb.visited[i].field : i \in DOMAIN cb.visited}
  /\ \A field \in DOMAIN cb.binds : cb.binds[field] = cb.visited[firstVisit(field)].path

C23_Witness ==
  /\ cb.pc = "done"
  /\ cb.template = Map(("h" :> Bound("title")) @@ ("p" :> Bound("title")))
  /\ Len(cb.visited) = 2
  /\ cb.binds = [title |-> <<"p", "value">>]

C26_NoOrphanRows ==
  \A f \in fields : \E r \in records : r.id = f.record_id

\* The record row and the field rows of record i
rowsOf(recs, flds, i) ==
  <<{r \in recs : r.id = i}, {f \in flds : f.record_id = i}>>

\* C27 as stated: update, updateField and delete called with a non-empty type
\* and the id of a record of another type leave the record row and the field
\* rows of that record as they were.
C27_TypeIsolation ==
  [][last'.op \in {"update", "updateField", "delete"} =>
     \A i \in {last'.id}, t \in Types \ {""} :
       ((\E r \in records : r.id = i /\ r.type # t)
          /\ \/ \E v \in ValueMaps : Update(i, t, v)
             \/ \E k \in KeyArgs, v \in Vals : UpdateField(i, t, k, v)
             \/ Delete(i, t)) =>
         rowsOf(records', fields', i) = rowsOf(records, fields, i)]_vars

\* C28 as stated: when the Render calls that seed a store which held no record
\* of the type have all finished, at most one record of that type exists.
C28_AtMostOneSeed ==
  (\A p \in Procs : sw[p].pc \in {"idle", "done"}) =>
    \A t \in Types : Cardinality({r \in records : r.type = t}) <= 1

\* The records a call with the type reaches: those of the type, all if none is given
scoped(recs, contentType) == {r \in recs : contentType = "" \/ r.type = contentType}

\* C29 as stated: a single+edit Render call that handles a POST with action
\* delete for an existing record ends with exactly one record fewer of the type
\* than before the call, whether or not a redirect is possible.
C29_DeleteRemovesOne ==
  [][(/\ se.pc = "idle" /\ se'.pc = "done"
      /\ se'.req.method = "POST"
      /\ ToLower(TrimSpace(se'.req.action)) = "delete"
      /\ touchedRows(records, se'.target, se'.cfg.contentType) # {}) =>
       Cardinality(scoped(records', se'.cfg.contentType))
         = Cardinality(scoped(records, se'.cfg.contentType)) - 1]_vars

\* The records of the call an instance was built for
instances == {i \in DOMAIN rn.records : <<CopyNs[i], <<>>>> \in DOMAIN rn.heap}

\* The instance of the i-th record, as a tree
instanceOf(i) == treeOf(rn.heap, Ref(<<CopyNs[i], <<>>>>))

\* The record holds a value for the bind that is to be written: any value, but
\* for the empty value of an image bind
toWrite(rec, field) ==
  /\ field \in DOMAIN rec.Fields
  /\ ~(rec.Fields[field] = "" /\ field \in collectImageBinds(rn.cfg, bindIndex(rn.template)))

copiedTemplate ==
  IF rn.cfg.action = "render" THEN applyTeaserFilter(rn.template, rn.cfg) ELSE rn.template

\* The segments of a path before its last lead to a map of the tree
reaches(tree, path) ==
  LET parent == walk(tree, SubSeq(path, 1, Len(path) - 1))
  IN parent.ok /\ IsMap(parent.node)

C30_TemplateUnchanged ==
  rn.pc = "done" =>
    /\ treeOf(rn.heap, TemplateRoot) = rn.template
    /\ \A a \in DOMAIN allocIn("T", rn.template) :
         rn.heap[a] = allocIn("T", rn.template)[a]

\* A list of instances made of a filtered template, with the record's title
\* written, the bind stripped, the node wrapped and the edit link added
C30_Witness ==
  /\ rn.pc = "done"
  /\ rn.cfg.view = "list" /\ rn.cfg.action = "render"
  /\ rn.cfg.Teaser /\ rn.cfg.Inline /\ rn.cfg.Editable
  /\ <<"F", <<>>>> \in DOMAIN rn.heap
  /\ "@meta" \in DOMAIN rn.template.m
  /\ "@bind" \notin DOMAIN instanceOf(1).m["h"].m
  /\ instanceOf(1).m["h"].m["value"] = Str("B")
  /\ "enclose" \in DOMAIN instanceOf(1).m["h"].m
  /\ "_edit" \in DOMAIN instanceOf(1).m
  /\ treeOf(rn.heap, rn.out).m["10"] = instanceOf(1)
====
